---------------------------- MODULE Spec2Model ----------------------------
(***************************************************************************)
(* Model of the scoring engine of the MantleMusicFi AI service:            *)
(*   src/ai-service/src/api/credit_scoring.py     (credit scoring)         *)
(*   src/ai-service/src/api/risk_assessment.py    (risk assessment)        *)
(*   src/ai-service/src/api/revenue_prediction.py (batch prediction)       *)
(*                                                                         *)
(* Python floats are modelled as exact rationals <<n, d>> (d > 0, lowest   *)
(* terms), so that sums, products, quotients, comparisons and int() are    *)
(* computed rather than assumed.  np.log10 is applied only to powers of    *)
(* ten, where it is exact.  np.random.uniform(a, b) is a nondeterministic  *)
(* choice between a and b.  _calculate_overall_risk and the classifier     *)
(* behind it are computed a second time in IEEE 754 binary64, the          *)
(* arithmetic Python floats have, where rounding decides the outcome.      *)
(***************************************************************************)
EXTENDS Integers, Sequences, FiniteSets, TLC

VARIABLES endpoint, request, response, draws, clock, credit_model

vars == <<endpoint, request, response, draws, clock, credit_model>>

---------------------------------------------------------------------------
(* Exact rational arithmetic standing for Python float arithmetic.         *)

Abs(x) == IF x < 0 THEN -x ELSE x

RECURSIVE GCD(_, _)
GCD(a, b) == IF b = 0 THEN a ELSE GCD(b, a % b)

Frac(n, d) ==
    LET g == GCD(Abs(n), Abs(d))
        s == IF d < 0 THEN -1 ELSE 1
    IN  <<(s * n) \div g, (s * d) \div g>>

R(n) == <<n, 1>>

RAdd(x, y) == Frac(x[1] * y[2] + y[1] * x[2], x[2] * y[2])
RSub(x, y) == Frac(x[1] * y[2] - y[1] * x[2], x[2] * y[2])
RMul(x, y) == Frac(x[1] * y[1], x[2] * y[2])
\* x / y for y # 0 (the callers guard a zero divisor, as ZeroDivisionError)
RDiv(x, y) == Frac(x[1] * y[2], x[2] * y[1])
RLt(x, y)  == x[1] * y[2] < y[1] * x[2]
RLe(x, y)  == x[1] * y[2] <= y[1] * x[2]
RAbs(x)    == <<Abs(x[1]), x[2]>>

\* Python min(a, b) / max(a, b): the first argument unless the second is
\* strictly smaller / larger.
PyMin(a, b) == IF RLt(b, a) THEN b ELSE a
PyMax(a, b) == IF RLt(a, b) THEN b ELSE a

\* Python int(x): truncation toward zero.
PyInt(x) == IF x[1] >= 0 THEN x[1] \div x[2] ELSE -((-x[1]) \div x[2])

\* np.log10(n) for n a positive power of ten.
RECURSIVE Log10(_)
Log10(n) == IF n < 10 THEN 0 ELSE 1 + Log10(n \div 10)

\* sum(d.values()) of a dict modelled as a function on its keys.
RECURSIVE SumValues(_)
SumValues(d) ==
    IF DOMAIN d = {} THEN 0
    ELSE LET k == CHOOSE k \in DOMAIN d : TRUE
         IN  d[k] + SumValues([j \in DOMAIN d \ {k} |-> d[j]])

\* Sum of f[i] over a sequence of rationals.
RECURSIVE RSum(_)
RSum(s) == IF s = <<>> THEN R(0) ELSE RAdd(Head(s), RSum(Tail(s)))

\* An Optional[T] field is a sequence: <<>> is None, <<v>> is a value.
None == <<>>
Some(v) == <<v>>

---------------------------------------------------------------------------
(* Python float arithmetic to the bit: IEEE 754 binary64 with              *)
(* round-half-even, for the non-negative values _calculate_overall_risk    *)
(* handles.  Natural numbers wider than the integers of the model are      *)
(* sequences of digits, least significant first, with no leading zero.     *)

DigitBits == 15
DigitBase == 2 ^ DigitBits

\* sys.float_info.mant_dig
MantissaBits == 53

RECURSIVE BigOf(_)
BigOf(n) == IF n = 0 THEN <<>> ELSE <<n % DigitBase>> \o BigOf(n \div DigitBase)

RECURSIVE BigTrim(_)
BigTrim(a) ==
    IF a = <<>> THEN <<>>
    ELSE IF a[Len(a)] = 0 THEN BigTrim(SubSeq(a, 1, Len(a) - 1))
    ELSE a

DigitAt(a, i) == IF i <= Len(a) THEN a[i] ELSE 0

RECURSIVE BigAddFrom(_, _, _, _)
BigAddFrom(a, b, i, carry) ==
    IF i > Len(a) /\ i > Len(b)
    THEN (IF carry = 0 THEN <<>> ELSE <<carry>>)
    ELSE <<(DigitAt(a, i) + DigitAt(b, i) + carry) % DigitBase>>
         \o BigAddFrom(a, b, i + 1,
                       (DigitAt(a, i) + DigitAt(b, i) + carry) \div DigitBase)

BigAdd(a, b) ==
    IF a = <<>> THEN b
    ELSE IF b = <<>> THEN a
    ELSE BigAddFrom(a, b, 1, 0)

\* a - b for a >= b
RECURSIVE BigSubFrom(_, _, _, _)
BigSubFrom(a, b, i, borrow) ==
    IF i > Len(a) THEN <<>>
    ELSE <<(DigitAt(a, i) - DigitAt(b, i) - borrow + DigitBase) % DigitBase>>
         \o BigSubFrom(a, b, i + 1,
                       IF DigitAt(a, i) - DigitAt(b, i) - borrow < 0 THEN 1 ELSE 0)

BigSub(a, b) ==
    IF b = <<>> THEN a
    ELSE BigTrim(BigSubFrom(a, b, 1, 0))

\* -1, 0, 1 as a < b, a = b, a > b
RECURSIVE BigCmpFrom(_, _, _)
BigCmpFrom(a, b, i) ==
    IF i = 0 THEN 0
    ELSE IF a[i] < b[i] THEN -1
    ELSE IF a[i] > b[i] THEN 1
    ELSE BigCmpFrom(a, b, i - 1)

BigCmp(a, b) ==
    IF Len(a) < Len(b) THEN -1
    ELSE IF Len(a) > Len(b) THEN 1
    ELSE BigCmpFrom(a, b, Len(a))

\* a * d for a digit d
RECURSIVE BigMulDigitFrom(_, _, _, _)
BigMulDigitFrom(a, d, i, carry) ==
    IF i > Len(a)
    THEN (IF carry = 0 THEN <<>> ELSE <<carry>>)
    ELSE <<(a[i] * d + carry) % DigitBase>>
         \o BigMulDigitFrom(a, d, i + 1, (a[i] * d + carry) \div DigitBase)

BigMulDigit(a, d) ==
    IF a = <<>> \/ d = 0 THEN <<>>
    ELSE IF d = 1 THEN a
    ELSE BigMulDigitFrom(a, d, 1, 0)

Zeros(n) == [i \in 1..n |-> 0]

\* a * DigitBase^n
BigShlDigits(a, n) == IF a = <<>> THEN <<>> ELSE Zeros(n) \o a

\* a * b, one digit of b at a time
RECURSIVE BigMulFrom(_, _, _)
BigMulFrom(a, b, i) ==
    IF i > Len(b) THEN <<>>
    ELSE BigAdd(BigShlDigits(BigMulFrom(a, b, i + 1), 1), BigMulDigit(a, b[i]))

BigMul(a, b) ==
    IF a = <<>> \/ b = <<>> THEN <<>>
    ELSE IF Len(a) < Len(b) THEN BigMulFrom(b, a, 1)
    ELSE BigMulFrom(a, b, 1)

\* floor(a / d) for a digit d > 0, from the most significant digit down
RECURSIVE BigDivDigitFrom(_, _, _, _)
BigDivDigitFrom(a, d, i, rem) ==
    IF i = 0 THEN <<>>
    ELSE BigDivDigitFrom(a, d, i - 1, (rem * DigitBase + a[i]) % d)
         \o <<(rem * DigitBase + a[i]) \div d>>

BigDivDigit(a, d) == BigTrim(BigDivDigitFrom(a, d, Len(a), 0))

\* a * 2^k and floor(a / 2^k)
BigShl(a, k) ==
    IF a = <<>> THEN <<>>
    ELSE BigShlDigits(BigMulDigit(a, 2 ^ (k % DigitBits)), k \div DigitBits)

BigShr(a, k) ==
    IF a = <<>> \/ k \div DigitBits >= Len(a) THEN <<>>
    ELSE IF k % DigitBits = 0 THEN SubSeq(a, (k \div DigitBits) + 1, Len(a))
    ELSE BigDivDigit(SubSeq(a, (k \div DigitBits) + 1, Len(a)), 2 ^ (k % DigitBits))

\* The number of bits of a digit
BitLength(d) ==
    IF d = 0 THEN 0
    ELSE CHOOSE k \in 1..DigitBits : 2 ^ (k - 1) <= d /\ d < 2 ^ k

BigBitLength(a) ==
    IF a = <<>> THEN 0 ELSE DigitBits * (Len(a) - 1) + BitLength(a[Len(a)])

BigIsOdd(a) == a # <<>> /\ a[1] % 2 = 1

\* One step of long division by b, whose leading digit is at least
\* DigitBase / 2.  The digits above left the quotient above[1] and a
\* remainder above[2] < b; the next digit is brought down beside the
\* remainder.  The quotient digit q lies between the estimates the two
\* leading digits of the remainder and the leading digit of b give.
BigDivModDigit(above, digit, b) ==
    IF above[2] = <<>> /\ digit = 0 THEN << <<0>> \o above[1], <<>> >>
    ELSE LET cur  == BigTrim(<<digit>> \o above[2])
             lead == DigitAt(cur, Len(b) + 1) * DigitBase + DigitAt(cur, Len(b))
             most == lead \div b[Len(b)]
             q    == CHOOSE q \in (lead \div (b[Len(b)] + 1))..
                                    (IF most < DigitBase THEN most ELSE DigitBase - 1) :
                        /\ BigCmp(BigMulDigit(b, q), cur) <= 0
                        /\ BigCmp(BigMulDigit(b, q + 1), cur) > 0
         IN  << <<q>> \o above[1], BigSub(cur, BigMulDigit(b, q)) >>

\* Long division over the digits of a from the most significant down to
\* digit i.  The leading Len(b) - 1 digits of a are below b: they are the
\* first remainder.
RECURSIVE BigDivModDigits(_, _, _)
BigDivModDigits(a, b, i) ==
    IF i > Len(a) - Len(b) + 1
    THEN << <<>>, BigTrim(SubSeq(a, i, Len(a))) >>
    ELSE BigDivModDigit(BigDivModDigits(a, b, i + 1), a[i], b)

\* <<floor(a / b), a mod b>> for b > 0.  a and b are first scaled by the
\* power of two that brings the leading digit of b to DigitBase / 2 or
\* more, which leaves the quotient as it is and scales the remainder.
BigDivMod(a, b) ==
    LET s  == DigitBits - BitLength(b[Len(b)])
        qr == BigDivModDigits(BigShl(a, s), BigShl(b, s), 1)
    IN  << BigTrim(qr[1]), BigShr(qr[2], s) >>

\* The number of zero bits below the lowest one bit of a digit d > 0
TrailingZeroBits(d) ==
    CHOOSE k \in 0..(DigitBits - 1) : d % (2 ^ (k + 1)) # 0 /\ d % (2 ^ k) = 0

\* ... and of a > 0
RECURSIVE TrailingZeros(_)
TrailingZeros(a) ==
    IF a[1] = 0 THEN DigitBits + TrailingZeros(Tail(a))
    ELSE TrailingZeroBits(a[1])

\* A float is <<m, e>>, standing for m * 2^e.  The value m * 2^e with its
\* trailing zero bits moved into the exponent:
FloatCanon(m, e) ==
    IF m = <<>> THEN << <<>>, 0 >>
    ELSE << BigShr(m, TrailingZeros(m)), e + TrailingZeros(m) >>

\* The float nearest to m * 2^e, ties to the even mantissa
FloatRound(m, e) ==
    IF m = <<>> \/ BigBitLength(m) <= MantissaBits THEN FloatCanon(m, e)
    ELSE LET s    == BigBitLength(m) - MantissaBits
             q    == BigShr(m, s)
             rest == BigCmp(BigSub(m, BigShl(q, s)), BigShl(BigOf(1), s - 1))
         IN  IF rest > 0 \/ (rest = 0 /\ BigIsOdd(q))
             THEN FloatCanon(BigAdd(q, BigOf(1)), e + s)
             ELSE FloatCanon(q, e + s)

\* float(n) for a natural number n of the model
FloatOfInt(n) == FloatCanon(BigOf(n), 0)

PyFloatMul(x, y) ==
    IF x[1] = <<>> \/ y[1] = <<>> THEN << <<>>, 0 >>
    ELSE FloatRound(BigMul(x[1], y[1]), x[2] + y[2])

PyFloatAdd(x, y) ==
    IF x[1] = <<>> THEN y
    ELSE IF y[1] = <<>> THEN x
    ELSE
    LET e == IF x[2] < y[2] THEN x[2] ELSE y[2]
    IN  FloatRound(BigAdd(BigShl(x[1], x[2] - e), BigShl(y[1], y[2] - e)), e)

\* x / y for y > 0: the quotient is carried to at least two bits more than
\* a mantissa holds, and a last bit records a non-zero remainder
PyFloatDiv(x, y) ==
    IF x[1] = <<>> \/ y[1] = <<>> THEN << <<>>, 0 >>
    ELSE LET room == MantissaBits + 2 + BigBitLength(y[1]) - BigBitLength(x[1])
             k    == IF room > 0 THEN room ELSE 0
             qr == BigDivMod(BigShl(x[1], k), y[1])
         IN  FloatRound(BigAdd(BigShl(qr[1], 1),
                               IF qr[2] = <<>> THEN <<>> ELSE BigOf(1)),
                        x[2] - y[2] - k - 1)

\* -1, 0, 1 as x < y, x = y, x > y
PyFloatCmp(x, y) ==
    IF x = y THEN 0
    ELSE
    LET e == IF x[2] < y[2] THEN x[2] ELSE y[2]
    IN  BigCmp(BigShl(x[1], x[2] - e), BigShl(y[1], y[2] - e))

\* The float a decimal literal or an exact sub-score n/d denotes
FloatOf(r) ==
    IF r[2] = 1 THEN FloatOfInt(r[1])
    ELSE PyFloatDiv(FloatOfInt(r[1]), FloatOfInt(r[2]))

---------------------------------------------------------------------------
(* credit_scoring.py: enums, tables and CreditScoringModel                 *)

UserType == {"artist", "investor", "label", "producer"}

\* CreditScoringModel.__init__: the weight tables
artist_weights ==
    [financial_history |-> Frac(35, 100), artist_metrics |-> Frac(25, 100),
     blockchain_metrics |-> Frac(20, 100), social_metrics |-> Frac(15, 100),
     additional_factors |-> Frac(5, 100)]

investor_weights ==
    [financial_history |-> Frac(40, 100), investor_metrics |-> Frac(30, 100),
     blockchain_metrics |-> Frac(20, 100), social_metrics |-> Frac(10, 100)]

\* The threshold dicts, in insertion order (the order .items() iterates in).
credit_risk_thresholds ==
    << <<"low", 700>>, <<"medium", 600>>, <<"high", 500>>, <<"very_high", 0>> >>

grade_thresholds ==
    << <<"AAA", 800>>, <<"AA", 750>>, <<"A", 700>>, <<"BBB", 650>>,
       <<"BB", 600>>, <<"B", 550>>, <<"CCC", 500>>, <<"CC", 450>>,
       <<"C", 400>>, <<"D", 0>> >>

\* Mutant of ClampCreditSub: the lower bound only.
ClampCreditSub_no_cap(score) == PyMax(R(300), score)

\* credit_model = CreditScoringModel(): the attributes __init__ assigns
CreditScoringModel ==
    [artist_weights |-> artist_weights, investor_weights |-> investor_weights,
     risk_thresholds |-> credit_risk_thresholds,
     grade_thresholds |-> grade_thresholds]

\* max(300, min(850, score)): the clamp closing every credit sub-scorer
ClampCreditSub(score) == PyMax(R(300), PyMin(R(850), score))

\* Mutant of calculate_financial_score: the payment term without its guard
\* on total_transactions, a history without transactions counting as ratio 1.
calculate_financial_score_unguarded(financial) ==
    LET s0 == R(500)
        s1 == RAdd(s0,
                   IF financial.total_revenue > 0
                   THEN PyMin(R(100), Frac(financial.total_revenue, 10000))
                   ELSE R(0))
        payment_ratio ==
              IF financial.total_transactions = 0 THEN R(1)
              ELSE RSub(R(1), Frac(financial.defaults + financial.late_payments,
                                   financial.total_transactions))
        s2 == RAdd(s1, RMul(payment_ratio, R(150)))
        s3 == RAdd(s2,
                   IF financial.average_transaction_size > 0
                   THEN PyMin(R(50), Frac(financial.average_transaction_size, 100))
                   ELSE R(0))
    IN  ClampCreditSub(s3)

\* _calculate_financial_score
calculate_financial_score(financial) ==
    LET s0 == R(500)
        s1 == RAdd(s0,
                   IF financial.total_revenue > 0
                   THEN PyMin(R(100), Frac(financial.total_revenue, 10000))
                   ELSE R(0))
        payment_ratio ==
              RSub(R(1), Frac(financial.defaults + financial.late_payments,
                              financial.total_transactions))
        s2 == RAdd(s1,
                   IF financial.total_transactions > 0
                   THEN RMul(payment_ratio, R(150))
                   ELSE R(0))
        s3 == RAdd(s2,
                   IF financial.average_transaction_size > 0
                   THEN PyMin(R(50), Frac(financial.average_transaction_size, 100))
                   ELSE R(0))
    IN  ClampCreditSub(s3)

\* _calculate_artist_score: what each "score +=" adds, by signal
artist_score_terms(artist) ==
    [total_streams |->
       IF artist.total_streams > 0
       THEN PyMin(R(100), R(Log10(artist.total_streams) * 10))
       ELSE R(0),
     follower_count |->
       IF artist.follower_count > 0
       THEN PyMin(R(80), R(Log10(artist.follower_count) * 15))
       ELSE R(0),
     engagement_rate |-> RMul(artist.engagement_rate, R(50)),
     release_frequency |-> PyMin(R(30), RMul(artist.release_frequency, R(10))),
     collaboration_count |-> PyMin(R(40), R(artist.collaboration_count * 2)),
     awards_count |-> PyMin(R(50), R(artist.awards_count * 10))]

\* _calculate_artist_score
calculate_artist_score(artist) ==
    LET t == artist_score_terms(artist)
    IN  ClampCreditSub(
          RSum(<< R(500), t.total_streams, t.follower_count, t.engagement_rate,
                  t.release_frequency, t.collaboration_count, t.awards_count >>))

\* _calculate_investor_score: what each "score +=" adds, by signal
investor_score_terms(investor) ==
    LET n == investor.successful_investments + investor.failed_investments
    IN  [total_invested |->
           IF investor.total_invested > 0
           THEN PyMin(R(100), Frac(investor.total_invested, 50000))
           ELSE R(0),
         portfolio_size |-> PyMin(R(50), R(investor.portfolio_size * 2)),
         success_rate |->
           IF n > 0
           THEN RMul(Frac(investor.successful_investments, n), R(100))
           ELSE R(0),
         average_roi |->
           IF RLt(R(0), investor.average_roi)
           THEN PyMin(R(80), RMul(investor.average_roi, R(100)))
           ELSE R(0),
         diversification_score |-> RMul(investor.diversification_score, R(70))]

\* _calculate_investor_score
calculate_investor_score(investor) ==
    LET t == investor_score_terms(investor)
    IN  ClampCreditSub(
          RSum(<< R(500), t.total_invested, t.portfolio_size, t.success_rate,
                  t.average_roi, t.diversification_score >>))

\* Mutant of calculate_blockchain_score: the governance term is not capped.
calculate_blockchain_score_uncapped_governance(blockchain) ==
    LET s0 == R(500)
        s1 == RAdd(s0, PyMin(R(50), Frac(blockchain.wallet_age, 10)))
        s2 == RAdd(s1,
                   IF blockchain.transaction_count > 0
                   THEN PyMin(R(80), R(Log10(blockchain.transaction_count) * 20))
                   ELSE R(0))
        s3 == RAdd(s2,
                   IF blockchain.total_volume > 0
                   THEN PyMin(R(70), R(Log10(blockchain.total_volume) * 15))
                   ELSE R(0))
        s4 == RAdd(s3,
                   IF blockchain.defi_participation
                   THEN R(30)
                   ELSE R(0))
        s5 == RAdd(s4, R(blockchain.governance_participation * 5))
        s6 == RAdd(s5,
                   IF blockchain.staking_amount > 0
                   THEN PyMin(R(30), Frac(blockchain.staking_amount, 1000))
                   ELSE R(0))
    IN  ClampCreditSub(s6)

\* _calculate_blockchain_score
calculate_blockchain_score(blockchain) ==
    LET s0 == R(500)
        s1 == RAdd(s0, PyMin(R(50), Frac(blockchain.wallet_age, 10)))
        s2 == RAdd(s1,
                   IF blockchain.transaction_count > 0
                   THEN PyMin(R(80), R(Log10(blockchain.transaction_count) * 20))
                   ELSE R(0))
        s3 == RAdd(s2,
                   IF blockchain.total_volume > 0
                   THEN PyMin(R(70), R(Log10(blockchain.total_volume) * 15))
                   ELSE R(0))
        s4 == RAdd(s3,
                   IF blockchain.defi_participation
                   THEN R(30)
                   ELSE R(0))
        s5 == RAdd(s4, PyMin(R(40), R(blockchain.governance_participation * 5)))
        s6 == RAdd(s5,
                   IF blockchain.staking_amount > 0
                   THEN PyMin(R(30), Frac(blockchain.staking_amount, 1000))
                   ELSE R(0))
    IN  ClampCreditSub(s6)

\* _calculate_social_score: what each "score +=" / "score -=" adds, by signal
social_score_terms(social) ==
    LET total_followers == SumValues(social.social_media_followers)
    IN  [total_followers |->
           IF total_followers > 0
           THEN PyMin(R(80), R(Log10(total_followers) * 15))
           ELSE R(0),
         social_engagement_rate |-> RMul(social.social_engagement_rate, R(60)),
         community_reputation |-> RMul(social.community_reputation, R(50)),
         verified_accounts |-> R(social.verified_accounts * 20),
         negative_sentiment_ratio |->
           RSub(R(0), RMul(social.negative_sentiment_ratio, R(100)))]

\* _calculate_social_score
calculate_social_score(social) ==
    LET t == social_score_terms(social)
    IN  ClampCreditSub(
          RSum(<< R(500), t.total_followers, t.social_engagement_rate,
                  t.community_reputation, t.verified_accounts,
                  t.negative_sentiment_ratio >>))

\* The loop "for label, threshold in table.items(): if score >= threshold:
\* return label", with the fallback returned after the loop.
RECURSIVE FirstAtLeast(_, _, _)
FirstAtLeast(table, score, fallback) ==
    IF table = <<>> THEN fallback
    ELSE IF score >= Head(table)[2] THEN Head(table)[1]
    ELSE FirstAtLeast(Tail(table), score, fallback)

\* Mutant of _determine_credit_grade: "score > threshold" for "score >= threshold".
RECURSIVE FirstAbove(_, _, _)
FirstAbove(table, score, fallback) ==
    IF table = <<>> THEN fallback
    ELSE IF score > Head(table)[2] THEN Head(table)[1]
    ELSE FirstAbove(Tail(table), score, fallback)

determine_credit_grade_strict(score) == FirstAbove(grade_thresholds, score, "D")

\* _determine_credit_grade
determine_credit_grade(score) == FirstAtLeast(grade_thresholds, score, "D")

\* Mutant of credit_determine_risk_level: high reaches down to 450.
credit_determine_risk_level_wide_high(score) ==
    FirstAtLeast(<< <<"low", 700>>, <<"medium", 600>>, <<"high", 450>>,
                    <<"very_high", 0>> >>, score, "very_high")

\* CreditScoringModel._determine_risk_level
credit_determine_risk_level(score) ==
    FirstAtLeast(credit_risk_thresholds, score, "very_high")

\* Mutant of credit_calculate_confidence: a missing signal lowers the
\* confidence.
credit_calculate_confidence_penalised(req) ==
    LET c0 == Frac(5, 10)
        c1 == RAdd(c0,
                   IF req.financial_history.total_transactions > 10
                   THEN Frac(2, 10)
                   ELSE Frac(-2, 10))
        c2 == RAdd(c1,
                   IF req.blockchain_metrics.transaction_count > 50
                   THEN Frac(15, 100)
                   ELSE R(0))
        c3 == RAdd(c2,
                   IF DOMAIN req.social_metrics.social_media_followers # {}
                   THEN Frac(1, 10)
                   ELSE R(0))
    IN  PyMin(R(1), c3)

\* Mutant of credit_calculate_confidence: the streams signal lowers the
\* confidence.
credit_calculate_confidence_streams_discount(req) ==
    LET c0 == Frac(5, 10)
        c1 == RAdd(c0,
                   IF req.financial_history.total_transactions > 10
                   THEN Frac(2, 10)
                   ELSE R(0))
        c2 == RAdd(c1,
                   IF req.blockchain_metrics.transaction_count > 50
                   THEN Frac(15, 100)
                   ELSE R(0))
        c3 == RAdd(c2,
                   IF DOMAIN req.social_metrics.social_media_followers # {}
                   THEN Frac(1, 10)
                   ELSE R(0))
        c4 == RAdd(c3,
                   IF req.user_type = "artist" /\ req.artist_metrics # None
                      /\ req.artist_metrics[1].total_streams > 1000
                   THEN Frac(-5, 100)
                   ELSE R(0))
    IN  PyMin(R(1), c4)

\* _calculate_confidence (credit)
credit_calculate_confidence(req) ==
    LET c0 == Frac(5, 10)
        c1 == RAdd(c0,
                   IF req.financial_history.total_transactions > 10
                   THEN Frac(2, 10)
                   ELSE R(0))
        c2 == RAdd(c1,
                   IF req.blockchain_metrics.transaction_count > 50
                   THEN Frac(15, 100)
                   ELSE R(0))
        c3 == RAdd(c2,
                   IF DOMAIN req.social_metrics.social_media_followers # {}
                   THEN Frac(1, 10)
                   ELSE R(0))
        c4 == RAdd(c3,
                   IF req.user_type = "artist" /\ req.artist_metrics # None
                      /\ req.artist_metrics[1].total_streams > 1000
                   THEN Frac(5, 100)
                   ELSE R(0))
    IN  PyMin(R(1), c4)

\* risks.append(msg) under "if cond:"
AppendIf(list, cond, msg) == IF cond THEN Append(list, msg) ELSE list

\* _analyze_risk_factors (credit)
credit_analyze_risk_factors(req, score) ==
    LET r1 == AppendIf(<<>>, req.financial_history.defaults > 0,
                       "History of payment defaults")
        r2 == AppendIf(r1, req.financial_history.late_payments > 5,
                       "Frequent late payments")
        r3 == AppendIf(r2, req.financial_history.total_revenue < 1000,
                       "Low revenue history")
        r4 == AppendIf(r3, req.blockchain_metrics.wallet_age < 30,
                       "New wallet address")
        r5 == AppendIf(r4, req.blockchain_metrics.transaction_count < 10,
                       "Limited blockchain activity")
        r6 == AppendIf(r5, RLt(Frac(3, 10), req.social_metrics.negative_sentiment_ratio),
                       "High negative sentiment")
        r7 == AppendIf(r6, score < 500, "Below average credit score")
    IN  r7

\* Mutant of analyze_positive_factors: the rules as one if/elif chain, which
\* stops at the first rule that holds.
analyze_positive_factors_first_match(req, score) ==
    IF req.financial_history.defaults = 0 THEN <<"No payment defaults">>
    ELSE IF req.financial_history.total_revenue > 10000 THEN <<"Strong revenue history">>
    ELSE IF req.blockchain_metrics.defi_participation THEN <<"Active DeFi participant">>
    ELSE IF req.blockchain_metrics.governance_participation > 5 THEN <<"Active in governance">>
    ELSE IF req.social_metrics.verified_accounts > 0 THEN <<"Verified social media accounts">>
    ELSE IF RLt(Frac(8, 10), req.social_metrics.community_reputation)
         THEN <<"Strong community reputation">>
    ELSE IF score > 700 THEN <<"Excellent credit score">>
    ELSE IF score > 600 THEN <<"Good credit score">>
    ELSE <<>>

\* _analyze_positive_factors
analyze_positive_factors(req, score) ==
    LET p1 == AppendIf(<<>>, req.financial_history.defaults = 0,
                       "No payment defaults")
        p2 == AppendIf(p1, req.financial_history.total_revenue > 10000,
                       "Strong revenue history")
        p3 == AppendIf(p2, req.blockchain_metrics.defi_participation,
                       "Active DeFi participant")
        p4 == AppendIf(p3, req.blockchain_metrics.governance_participation > 5,
                       "Active in governance")
        p5 == AppendIf(p4, req.social_metrics.verified_accounts > 0,
                       "Verified social media accounts")
        p6 == AppendIf(p5, RLt(Frac(8, 10), req.social_metrics.community_reputation),
                       "Strong community reputation")
        p7 == IF score > 700 THEN Append(p6, "Excellent credit score")
              ELSE IF score > 600 THEN Append(p6, "Good credit score")
              ELSE p6
    IN  p7

\* _generate_recommendations (credit)
credit_generate_recommendations(req, score) ==
    LET g1 == IF score < 600
              THEN <<"Focus on building consistent payment history",
                     "Increase transaction volume gradually">>
              ELSE <<>>
        g2 == AppendIf(g1, req.blockchain_metrics.transaction_count < 50,
                       "Increase blockchain activity and engagement")
        g3 == AppendIf(g2, ~req.blockchain_metrics.defi_participation,
                       "Consider participating in DeFi protocols")
        g4 == AppendIf(g3, RLt(Frac(2, 10), req.social_metrics.negative_sentiment_ratio),
                       "Improve community engagement and reputation")
        isArtist == req.user_type = "artist" /\ req.artist_metrics # None
        g5 == AppendIf(g4, isArtist /\ RLt(req.artist_metrics[1].engagement_rate, Frac(1, 10)),
                       "Increase fan engagement and interaction")
        g6 == AppendIf(g5, isArtist /\ RLt(req.artist_metrics[1].release_frequency, R(1)),
                       "Maintain regular content release schedule")
    IN  g6

\* Mutant of select_weights: a label is scored with the artist weights.
select_weights_label_as_artist(user_type) ==
    IF user_type \in {"artist", "label"} THEN artist_weights ELSE investor_weights

\* weights selected at the top of calculate_credit_score
select_weights(user_type) ==
    IF user_type = "artist" THEN artist_weights ELSE investor_weights

\* weights.get('artist_metrics', weights.get('investor_metrics', 0))
specific_weight(weights) ==
    IF "artist_metrics" \in DOMAIN weights THEN weights.artist_metrics
    ELSE IF "investor_metrics" \in DOMAIN weights THEN weights.investor_metrics
    ELSE R(0)

\* the type-specific sub-score of calculate_credit_score
specific_score(req) ==
    IF req.user_type = "artist" /\ req.artist_metrics # None
    THEN calculate_artist_score(req.artist_metrics[1])
    ELSE IF req.user_type = "investor" /\ req.investor_metrics # None
    THEN calculate_investor_score(req.investor_metrics[1])
    ELSE R(500)

\* Mutant of total_score: when the bundle of the request's own type is
\* absent, its term is left out and the sum is divided by the remaining
\* weights.
total_score_renormalized(req) ==
    LET weights == select_weights(req.user_type)
        missing == \/ req.user_type = "artist" /\ req.artist_metrics = None
                   \/ req.user_type = "investor" /\ req.investor_metrics = None
        rest == RSum(<< RMul(calculate_financial_score(req.financial_history),
                             weights.financial_history),
                        RMul(calculate_blockchain_score(req.blockchain_metrics),
                             weights.blockchain_metrics),
                        RMul(calculate_social_score(req.social_metrics),
                             weights.social_metrics) >>)
        rest_weight == RSum(<< weights.financial_history, weights.blockchain_metrics,
                               weights.social_metrics >>)
    IN  IF missing THEN RDiv(rest, rest_weight)
        ELSE RAdd(rest, RMul(specific_score(req), specific_weight(weights)))

\* total_score of calculate_credit_score: the weighted sum before clamping
total_score(req) ==
    LET weights == select_weights(req.user_type)
    IN  RSum(<< RMul(calculate_financial_score(req.financial_history),
                     weights.financial_history),
                RMul(specific_score(req), specific_weight(weights)),
                RMul(calculate_blockchain_score(req.blockchain_metrics),
                     weights.blockchain_metrics),
                RMul(calculate_social_score(req.social_metrics),
                     weights.social_metrics) >>)

\* Mutant of clamp_credit_score: the lower bound is dropped, min(850, int(total)).
clamp_credit_score_no_floor(total) ==
    LET i == PyInt(total)
    IN  IF 850 < i THEN 850 ELSE i

\* credit_score = max(300, min(850, int(total_score)))
clamp_credit_score(total) ==
    LET i == PyInt(total)
        m == IF 850 < i THEN 850 ELSE i
    IN  IF 300 < m THEN m ELSE 300

\* An exception in flight, and the value of a call that may raise.
HTTPException(status, detail) == [status |-> status, detail |-> detail]
Raise(exc)  == [raised |-> TRUE,  exc |-> exc, value |-> [kind |-> "none"]]
Return(val) == [raised |-> FALSE, exc |-> HTTPException(0, <<>>), value |-> val]

\* An exception other than HTTPException, named by its class.
PyException(name) == [status |-> 0, detail |-> <<name>>]

\* str(e) of an HTTPException: "<status_code>: <detail>"; of any other
\* exception: its message.
StrOfHTTPException(e) ==
    IF e.status = 0 THEN e.detail
    ELSE <<IF e.status = 400 THEN "400" ELSE "500">> \o e.detail

\* The Field(ge=, le=) constraints pydantic checks when a CreditScoreResult
\* is constructed.
CreditScoreResultValid(credit_score, confidence) ==
    /\ 300 <= credit_score /\ credit_score <= 850
    /\ RLe(R(0), confidence) /\ RLe(confidence, R(1))

\* The integers of a request are unbounded Python ints.  An int that does
\* not fit 64 bits reaches np.log10 as a Python object, and np.log10 raises
\* TypeError.  WideInt stands for the first such integer (2^64), scaled to
\* the integers of the model; every other integer of a request is below it.
WideInt == 1000000000

np_log10_raises(n) == n >= WideInt

\* The np.log10 calls calculate_credit_score reaches, on integer fields.
calculate_credit_score_raises(req) ==
    \/ /\ req.blockchain_metrics.transaction_count > 0
       /\ np_log10_raises(req.blockchain_metrics.transaction_count)
    \/ LET total_followers == SumValues(req.social_metrics.social_media_followers)
       IN  total_followers > 0 /\ np_log10_raises(total_followers)
    \/ /\ req.user_type = "artist"
       /\ req.artist_metrics # None
       /\ \/ /\ req.artist_metrics[1].total_streams > 0
             /\ np_log10_raises(req.artist_metrics[1].total_streams)
          \/ /\ req.artist_metrics[1].follower_count > 0
             /\ np_log10_raises(req.artist_metrics[1].follower_count)

\* CreditScoringModel.calculate_credit_score
calculate_credit_score(req) ==
    LET financial_score  == calculate_financial_score(req.financial_history)
        blockchain_score == calculate_blockchain_score(req.blockchain_metrics)
        social_score     == calculate_social_score(req.social_metrics)
        credit_score     == clamp_credit_score(total_score(req))
        confidence       == credit_calculate_confidence(req)
    IN  IF calculate_credit_score_raises(req)
        THEN Raise(HTTPException(500, <<"Credit scoring failed", "TypeError">>))
        ELSE IF ~CreditScoreResultValid(credit_score, confidence)
        THEN Raise(HTTPException(500, <<"Credit scoring failed", "ValidationError">>))
        ELSE Return(
          [kind |-> "CreditScoreResult",
           user_id |-> req.user_id,
           credit_score |-> credit_score,
           credit_grade |-> determine_credit_grade(credit_score),
           risk_level |-> credit_determine_risk_level(credit_score),
           confidence |-> confidence,
           score_breakdown |->
             [financial_history |-> financial_score,
              specific_metrics |-> specific_score(req),
              blockchain_metrics |-> blockchain_score,
              social_metrics |-> social_score,
              weighted_total |-> R(credit_score)],
           risk_factors |-> credit_analyze_risk_factors(req, credit_score),
           positive_factors |-> analyze_positive_factors(req, credit_score),
           recommendations |-> credit_generate_recommendations(req, credit_score)])

---------------------------------------------------------------------------
(* risk_assessment.py: enums, tables and RiskAssessmentModel               *)

RiskType == {"market", "credit", "liquidity", "operational", "regulatory",
             "technology"}

TimeHorizon == {"short_term", "medium_term", "long_term"}

\* RiskAssessmentModel.__init__: risk_weights
risk_weights ==
    [market |-> Frac(30, 100), credit |-> Frac(25, 100),
     liquidity |-> Frac(20, 100), operational |-> Frac(10, 100),
     regulatory |-> Frac(10, 100), technology |-> Frac(5, 100)]

\* risk_thresholds, in insertion order
risk_thresholds ==
    << <<"very_low", 20>>, <<"low", 40>>, <<"medium", 60>>, <<"high", 80>>,
       <<"very_high", 95>>, <<"extreme", 100>> >>

\* time_decay
time_decay ==
    [short_term |-> R(1), medium_term |-> Frac(8, 10), long_term |-> Frac(6, 10)]

\* Mutant of ClampRisk: the score is returned unclamped.
ClampRisk_none(score) == score

\* max(0, min(100, score)): the clamp closing every risk sub-scorer and
\* _calculate_overall_risk
ClampRisk(score) == PyMax(R(0), PyMin(R(100), score))

\* np.mean(list(d.values())) of a non-empty dict of rationals
RECURSIVE RSumValues(_)
RSumValues(d) ==
    IF DOMAIN d = {} THEN R(0)
    ELSE LET k == CHOOSE k \in DOMAIN d : TRUE
         IN  RAdd(d[k], RSumValues([j \in DOMAIN d \ {k} |-> d[j]]))

MeanValues(d) == RDiv(RSumValues(d), R(Cardinality(DOMAIN d)))

\* _assess_market_risk
assess_market_risk(req) ==
    LET md == req.market_data
        s0 == R(50)
        s1 == RAdd(s0,
                   IF RLt(R(0), md.volatility)
                   THEN PyMin(R(40), RMul(md.volatility, R(100)))
                   ELSE R(0))
        s2 == RAdd(s1,
                   IF RLt(R(1), RAbs(md.beta))
                   THEN PyMin(R(20), RMul(RSub(RAbs(md.beta), R(1)), R(20)))
                   ELSE R(0))
        s3 == RAdd(s2,
                   IF RLt(md.market_sentiment, R(0))
                   THEN RMul(RAbs(md.market_sentiment), R(30))
                   ELSE R(0))
        avg_correlation == MeanValues(md.correlation_matrix)
        s4 == RAdd(s3,
                   IF DOMAIN md.correlation_matrix # {} /\ RLt(Frac(7, 10), avg_correlation)
                   THEN RMul(RSub(avg_correlation, Frac(7, 10)), R(50))
                   ELSE R(0))
    IN  ClampRisk(s4)

\* asset_risk_map of _assess_credit_risk
asset_risk_map ==
    [music_token |-> 40, artist_share |-> 35, royalty_stream |-> 25,
     label_equity |-> 30, platform_token |-> 45]

\* regulatory_risk_map of _assess_regulatory_risk
regulatory_risk_map ==
    [music_token |-> 30, artist_share |-> 40, royalty_stream |-> 20,
     label_equity |-> 35, platform_token |-> 45]

\* _assess_credit_risk raises ZeroDivisionError at
\*   volume_ratio = volume_24h / market_cap
assess_credit_risk_raises(req) ==
    /\ req.asset_info # None
    /\ req.asset_info[1].volume_24h > 0
    /\ req.asset_info[1].market_cap = 0

\* _assess_credit_risk (when it does not raise)
assess_credit_risk(req) ==
    LET has == req.asset_info # None
        a   == req.asset_info[1]
        s0  == R(30)
        s1  == IF has THEN RAdd(s0, R(asset_risk_map[a.asset_type])) ELSE s0
        s2  == IF has /\ a.market_cap > 0
               THEN IF a.market_cap < 1000000 THEN RAdd(s1, R(30))
                    ELSE IF a.market_cap < 10000000 THEN RAdd(s1, R(20))
                    ELSE RAdd(s1, R(10))
               ELSE s1
        s3  == IF has /\ a.volume_24h > 0
                  /\ RLt(Frac(a.volume_24h, a.market_cap), Frac(1, 100))
               THEN RAdd(s2, R(25))
               ELSE s2
    IN  ClampRisk(s3)

\* time_factor of _assess_liquidity_risk
liquidity_time_factor ==
    [short_term |-> Frac(12, 10), medium_term |-> R(1), long_term |-> Frac(8, 10)]

\* _assess_liquidity_risk; u holds the value of its np.random.uniform call
assess_liquidity_risk(req, u) ==
    LET has == req.asset_info # None
        a   == req.asset_info[1]
        s0  == R(40)
        s1  == IF has /\ a.volume_24h > 0
               THEN IF a.volume_24h < 10000 THEN RAdd(s0, R(40))
                    ELSE IF a.volume_24h < 100000 THEN RAdd(s0, R(25))
                    ELSE RAdd(s0, R(10))
               ELSE s0
        s2  == RAdd(s1, u[1])
        s3  == RMul(s2, liquidity_time_factor[req.time_horizon])
    IN  ClampRisk(s3)

\* _assess_operational_risk; u holds its three np.random.uniform values
assess_operational_risk(req, u) ==
    ClampRisk(RAdd(RAdd(RAdd(R(25), u[1]), u[2]), u[3]))

\* _assess_regulatory_risk; u holds its np.random.uniform value
assess_regulatory_risk(req, u) ==
    LET s0 == R(35)
        s1 == RAdd(s0,
                   IF req.asset_info # None
                   THEN R(regulatory_risk_map[req.asset_info[1].asset_type])
                   ELSE R(0))
    IN  ClampRisk(RAdd(s1, u[1]))

\* _assess_technology_risk; u holds its three np.random.uniform values
assess_technology_risk(req, u) ==
    ClampRisk(RAdd(RAdd(RAdd(R(20), u[1]), u[2]), u[3]))

\* The values np.random.uniform(lo, hi) is modelled to return.
Uniform(lo, hi) == {R(lo), R(hi)}

\* The draws one call of the sub-scorer of risk_type makes, in call order.
DrawsOf(risk_type) ==
    CASE risk_type = "liquidity"   -> {<<a>> : a \in Uniform(10, 30)}
      [] risk_type = "operational" -> {<<a, b, c>> : a \in Uniform(10, 30),
                                        b \in Uniform(5, 20), c \in Uniform(5, 15)}
      [] risk_type = "regulatory"  -> {<<a>> : a \in Uniform(10, 25)}
      [] risk_type = "technology"  -> {<<a, b, c>> : a \in Uniform(15, 35),
                                        b \in Uniform(10, 25), c \in Uniform(5, 20)}
      [] OTHER -> {<<>>}

\* The dispatch in the loop of assess_risk
assess_one(risk_type, req, u) ==
    CASE risk_type = "market"      -> assess_market_risk(req)
      [] risk_type = "credit"      -> assess_credit_risk(req)
      [] risk_type = "liquidity"   -> assess_liquidity_risk(req, u)
      [] risk_type = "operational" -> assess_operational_risk(req, u)
      [] risk_type = "regulatory"  -> assess_regulatory_risk(req, u)
      [] risk_type = "technology"  -> assess_technology_risk(req, u)

\* risk_scores after the loop of assess_risk: a dict keyed by risk type; a
\* type listed twice is scored twice and the later score replaces the earlier.
risk_scores_of(req, us) ==
    LET types == req.assessment_types
        last(t) == CHOOSE i \in 1..Len(types) :
                     types[i] = t /\ \A j \in (i + 1)..Len(types) : types[j] # t
    IN  [t \in {types[i] : i \in 1..Len(types)} |->
            assess_one(t, req, us[last(t)])]

\* The two accumulators of the loop of _calculate_overall_risk.
\* self.risk_weights.get(risk_type, 0.1): every RiskType is a key.
RECURSIVE weighted_score(_)
weighted_score(risk_scores) ==
    IF DOMAIN risk_scores = {} THEN R(0)
    ELSE LET t == CHOOSE t \in DOMAIN risk_scores : TRUE
         IN  RAdd(RMul(risk_scores[t], risk_weights[t]),
                  weighted_score([j \in DOMAIN risk_scores \ {t} |-> risk_scores[j]]))

\* Mutant of total_weight: the sum of all configured weights, whatever was scored.
total_weight_all(risk_scores) ==
    RSum(<< risk_weights.market, risk_weights.credit, risk_weights.liquidity,
            risk_weights.operational, risk_weights.regulatory,
            risk_weights.technology >>)

RECURSIVE total_weight(_)
total_weight(risk_scores) ==
    IF DOMAIN risk_scores = {} THEN R(0)
    ELSE LET t == CHOOSE t \in DOMAIN risk_scores : TRUE
         IN  RAdd(risk_weights[t],
                  total_weight([j \in DOMAIN risk_scores \ {t} |-> risk_scores[j]]))

\* overall_score of _calculate_overall_risk before the time decay
pre_decay_score(risk_scores) ==
    IF RLt(R(0), total_weight(risk_scores))
    THEN RDiv(weighted_score(risk_scores), total_weight(risk_scores))
    ELSE R(50)

\* Mutant of _calculate_overall_risk: the time decay is not applied.
calculate_overall_risk_no_decay(risk_scores, time_horizon) ==
    ClampRisk(pre_decay_score(risk_scores))

\* _calculate_overall_risk
calculate_overall_risk(risk_scores, time_horizon) ==
    ClampRisk(RMul(pre_decay_score(risk_scores), time_decay[time_horizon]))

\* RiskAssessmentModel._determine_risk_level
RECURSIVE FirstAtMost(_, _, _)
FirstAtMost(table, score, fallback) ==
    IF table = <<>> THEN fallback
    ELSE IF RLe(score, R(Head(table)[2])) THEN Head(table)[1]
    ELSE FirstAtMost(Tail(table), score, fallback)

\* Mutant of _determine_risk_level: "score < threshold" for "score <= threshold".
RECURSIVE FirstBelow(_, _, _)
FirstBelow(table, score, fallback) ==
    IF table = <<>> THEN fallback
    ELSE IF RLt(score, R(Head(table)[2])) THEN Head(table)[1]
    ELSE FirstBelow(Tail(table), score, fallback)

determine_risk_level_strict(score) == FirstBelow(risk_thresholds, score, "extreme")

determine_risk_level(score) == FirstAtMost(risk_thresholds, score, "extreme")

\* The keys of the risk_scores dict in insertion order: a key keeps the
\* place of its first assignment.
RECURSIVE KeysInOrder(_, _)
KeysInOrder(types, seen) ==
    IF types = <<>> THEN <<>>
    ELSE IF Head(types) \in seen THEN KeysInOrder(Tail(types), seen)
    ELSE <<Head(types)>> \o KeysInOrder(Tail(types), seen \cup {Head(types)})

\* risk_scores.items(): the <<risk_type, score>> pairs in insertion order,
\* every score as the float it is
risk_scores_items(req, us) ==
    LET risk_scores == risk_scores_of(req, us)
        keys        == KeysInOrder(req.assessment_types, {})
    IN  [i \in 1..Len(keys) |-> <<keys[i], FloatOf(risk_scores[keys[i]])>>]

\* The floats the literals of risk_weights and time_decay denote
risk_weights_binary64 == [t \in RiskType |-> FloatOf(risk_weights[t])]
time_decay_binary64 == [h \in TimeHorizon |-> FloatOf(time_decay[h])]

\* <<weighted_score, total_weight>> after the first n passes of the loop of
\* _calculate_overall_risk, in float arithmetic
RECURSIVE accumulate_binary64(_, _)
accumulate_binary64(items, n) ==
    IF n = 0 THEN <<FloatOfInt(0), FloatOfInt(0)>>
    ELSE LET before == accumulate_binary64(items, n - 1)
             weight == risk_weights_binary64[items[n][1]]
         IN  << PyFloatAdd(before[1], PyFloatMul(items[n][2], weight)),
                PyFloatAdd(before[2], weight) >>

\* max(0, min(100, score)) on floats
ClampRisk_binary64(score) ==
    IF PyFloatCmp(score, FloatOfInt(100)) >= 0 THEN FloatOfInt(100)
    ELSE IF PyFloatCmp(score, FloatOfInt(0)) <= 0 THEN FloatOfInt(0)
    ELSE score

\* _calculate_overall_risk in float arithmetic
calculate_overall_risk_binary64(items, time_horizon) ==
    LET sums          == accumulate_binary64(items, Len(items))
        overall_score == IF PyFloatCmp(sums[2], FloatOfInt(0)) > 0
                         THEN PyFloatDiv(sums[1], sums[2])
                         ELSE FloatOfInt(50)
    IN  ClampRisk_binary64(PyFloatMul(overall_score, time_decay_binary64[time_horizon]))

\* _determine_risk_level on a float score
RECURSIVE FirstAtMost_binary64(_, _, _)
FirstAtMost_binary64(table, score, fallback) ==
    IF table = <<>> THEN fallback
    ELSE IF PyFloatCmp(score, FloatOfInt(Head(table)[2])) <= 0 THEN Head(table)[1]
    ELSE FirstAtMost_binary64(Tail(table), score, fallback)

determine_risk_level_binary64(score) ==
    FirstAtMost_binary64(risk_thresholds, score, "extreme")

\* _calculate_confidence (risk)
risk_calculate_confidence(req) ==
    LET c0 == Frac(5, 10)
        c1 == RAdd(c0,
                   IF Len(req.market_data.price_history) > 30
                   THEN Frac(2, 10)
                   ELSE R(0))
        c2 == RAdd(c1,
                   IF RLt(R(0), req.market_data.volatility)
                   THEN Frac(1, 10)
                   ELSE R(0))
        c3 == RAdd(c2,
                   IF req.asset_info # None /\ req.asset_info[1].market_cap > 0
                   THEN Frac(1, 10)
                   ELSE R(0))
        c4 == RAdd(c3,
                   IF Len(req.assessment_types) >= 4
                   THEN Frac(1, 10)
                   ELSE R(0))
    IN  PyMin(R(1), c4)

\* The Field(ge=, le=) constraints pydantic checks when a
\* RiskAssessmentResult is constructed.
RiskAssessmentResultValid(overall_score, confidence) ==
    /\ RLe(R(0), overall_score) /\ RLe(overall_score, R(100))
    /\ RLe(R(0), confidence) /\ RLe(confidence, R(1))

\* assess_risk raises in its loop when the credit sub-scorer is called and
\* divides by zero.
assess_risk_raises(req) ==
    /\ "credit" \in {req.assessment_types[i] : i \in 1..Len(req.assessment_types)}
    /\ assess_credit_risk_raises(req)

\* RiskAssessmentModel.assess_risk: the score, level, confidence and
\* breakdown of the result.  us[i] holds the random draws of the i-th
\* sub-scorer call.
assess_risk(req, us) ==
    IF assess_risk_raises(req)
    THEN Raise(HTTPException(500, <<"Risk assessment failed", "ZeroDivisionError">>))
    ELSE
      LET risk_scores   == risk_scores_of(req, us)
          overall_score == calculate_overall_risk(risk_scores, req.time_horizon)
          risk_level    == determine_risk_level(overall_score)
          confidence    == risk_calculate_confidence(req)
      IN  IF ~RiskAssessmentResultValid(overall_score, confidence)
          THEN Raise(HTTPException(500, <<"Risk assessment failed", "ValidationError">>))
          ELSE Return(
            [kind |-> "RiskAssessmentResult",
             assessment_id |-> req.assessment_id,
             overall_risk_level |-> risk_level,
             overall_risk_score |-> overall_score,
             confidence |-> confidence,
             risk_breakdown |-> risk_scores])

\* np.random.uniform(lo, hi) for fractional bounds: either end of the range
UniformFrac(lo, hi) == {lo, hi}

\* The potential_loss draws of _generate_risk_scenarios, in call order.
ScenarioDraws ==
    { <<a, b, c, d>> : a \in UniformFrac(Frac(3, 10), Frac(7, 10)),
                       b \in UniformFrac(Frac(2, 10), Frac(5, 10)),
                       c \in UniformFrac(Frac(1, 10), Frac(3, 10)),
                       d \in UniformFrac(Frac(15, 100), Frac(4, 10)) }

\* Mutant of generate_risk_scenarios: a market crash is twice as probable
\* when the overall score is above 50.
generate_risk_scenarios_score_scaled(req, overall_score, losses) ==
    << [scenario_name |-> "Market Crash",
        probability |-> IF RLt(R(50), overall_score) THEN Frac(10, 100) ELSE Frac(5, 100),
        impact |-> Frac(8, 10),
        description |-> "Severe market downturn affecting all music assets",
        potential_loss |-> losses[1],
        mitigation_strategies |->
          << "Diversify across different asset types",
             "Implement stop-loss orders",
             "Maintain cash reserves" >>],
       [scenario_name |-> "Regulatory Changes",
        probability |-> Frac(15, 100),
        impact |-> Frac(6, 10),
        description |-> "New regulations affecting music token trading",
        potential_loss |-> losses[2],
        mitigation_strategies |->
          << "Stay informed about regulatory developments",
             "Ensure compliance with current regulations",
             "Diversify geographically" >>],
       [scenario_name |-> "Technical Failure",
        probability |-> Frac(10, 100),
        impact |-> Frac(4, 10),
        description |-> "Platform or smart contract technical issues",
        potential_loss |-> losses[3],
        mitigation_strategies |->
          << "Use multiple platforms",
             "Regular security audits",
             "Backup recovery plans" >>],
       [scenario_name |-> "Liquidity Crisis",
        probability |-> Frac(20, 100),
        impact |-> Frac(5, 10),
        description |-> "Severe reduction in market liquidity",
        potential_loss |-> losses[4],
        mitigation_strategies |->
          << "Maintain diverse asset portfolio",
             "Monitor liquidity metrics",
             "Plan exit strategies" >>] >>

\* _generate_risk_scenarios
generate_risk_scenarios(req, overall_score, losses) ==
    << [scenario_name |-> "Market Crash",
        probability |-> Frac(5, 100),
        impact |-> Frac(8, 10),
        description |-> "Severe market downturn affecting all music assets",
        potential_loss |-> losses[1],
        mitigation_strategies |->
          << "Diversify across different asset types",
             "Implement stop-loss orders",
             "Maintain cash reserves" >>],
       [scenario_name |-> "Regulatory Changes",
        probability |-> Frac(15, 100),
        impact |-> Frac(6, 10),
        description |-> "New regulations affecting music token trading",
        potential_loss |-> losses[2],
        mitigation_strategies |->
          << "Stay informed about regulatory developments",
             "Ensure compliance with current regulations",
             "Diversify geographically" >>],
       [scenario_name |-> "Technical Failure",
        probability |-> Frac(10, 100),
        impact |-> Frac(4, 10),
        description |-> "Platform or smart contract technical issues",
        potential_loss |-> losses[3],
        mitigation_strategies |->
          << "Use multiple platforms",
             "Regular security audits",
             "Backup recovery plans" >>],
       [scenario_name |-> "Liquidity Crisis",
        probability |-> Frac(20, 100),
        impact |-> Frac(5, 10),
        description |-> "Severe reduction in market liquidity",
        potential_loss |-> losses[4],
        mitigation_strategies |->
          << "Maintain diverse asset portfolio",
             "Monitor liquidity metrics",
             "Plan exit strategies" >>] >>

---------------------------------------------------------------------------
(* revenue_prediction.py: RevenuePredictionModel                           *)

\* genre_multipliers.get(metadata.genre.lower(), 1.0); genres are given in
\* lower case
genre_multiplier(genre) ==
    CASE genre = "pop"        -> Frac(12, 10)
      [] genre = "rock"       -> R(1)
      [] genre = "hip-hop"    -> Frac(13, 10)
      [] genre = "electronic" -> Frac(9, 10)
      [] genre = "classical"  -> Frac(7, 10)
      [] genre = "jazz"       -> Frac(6, 10)
      [] genre = "country"    -> Frac(8, 10)
      [] genre = "r&b"        -> Frac(11, 10)
      [] OTHER                -> R(1)

\* _calculate_base_revenue.  release_date is modelled by its distance from
\* datetime.now() in days and by whether it carries a timezone.
calculate_base_revenue(metadata) ==
    LET duration_factor ==
            PyMin(Frac(3, 2), PyMax(Frac(1, 2), Frac(metadata.duration, 180)))
        days_since_release == metadata.release_date.days_ago
        recency_factor ==
            PyMax(Frac(3, 10),
                  RSub(R(1), RMul(Frac(days_since_release, 365), Frac(1, 2))))
    IN  RMul(RMul(RMul(R(1000), genre_multiplier(metadata.genre)),
                  duration_factor), recency_factor)

\* datetime.now() - metadata.release_date raises TypeError when release_date
\* is timezone-aware (datetime.now() is naive).
predict_revenue_raises(req) == req.music_metadata.release_date.aware

\* np.mean of a non-empty list of rationals
Mean(list) == RDiv(RSum(list), R(Len(list)))

\* RevenuePredictionModel.predict_revenue: the predicted revenue of the result
predict_revenue(req) ==
    IF predict_revenue_raises(req)
    THEN Raise(HTTPException(500, <<"Prediction failed", "TypeError">>))
    ELSE
      LET b0 == calculate_base_revenue(req.music_metadata)
          b1 == IF req.market_conditions # None
                THEN RMul(RMul(b0, req.market_conditions[1].genre_popularity),
                          req.market_conditions[1].seasonal_factor)
                ELSE b0
          b2 == IF req.historical_data # None /\ req.historical_data[1].revenue # <<>>
                THEN RDiv(RAdd(b1, Mean(req.historical_data[1].revenue)), R(2))
                ELSE b1
          time_factor ==
                PyMax(Frac(1, 10),
                      RSub(R(1), RMul(Frac(req.prediction_period, 365), Frac(3, 10))))
      IN  Return([kind |-> "RevenuePrediction",
                  predicted_revenue |-> RMul(b2, time_factor),
                  model_accuracy |-> Frac(85, 100)])

---------------------------------------------------------------------------
(* The credit requests the model submits: every combination of the metric  *)
(* bundles below.  They cover empty bundles, ordinary values, values that  *)
(* drive a sub-score into either clamp, and negative values (the pydantic  *)
(* models put no bound on any metric).                                     *)

FH(rev, def, late, tx, avg) ==
    [total_revenue |-> rev, defaults |-> def, late_payments |-> late,
     total_transactions |-> tx, average_transaction_size |-> avg]

FinancialHistories ==
    { FH(0, 0, 0, 0, 0),                \* the empty history
      FH(20000, 0, 0, 20, 2500),        \* ordinary
      FH(15000, 0, 1, 3, 0),            \* payment ratio 2/3
      FH(2000000, 0, 0, 20, 10000),     \* every capped term at its cap
      FH(500, 1, 6, 4, 0),              \* more misses than transactions
      FH(-5000, 10, 0, 2, 0),           \* far below the lower clamp
      FH(0, -10, 0, 2, 0) }             \* negative defaults

BM(age, tx, vol, defi, gov, stake) ==
    [wallet_age |-> age, transaction_count |-> tx, total_volume |-> vol,
     smart_contract_interactions |-> 0, defi_participation |-> defi,
     governance_participation |-> gov, staking_amount |-> stake]

BlockchainBundles ==
    { BM(0, 0, 0, FALSE, 0, 0),
      BM(20, 10, 10, FALSE, 0, 0),
      BM(365, 100, 1000, TRUE, 6, 5000),
      BM(1000, 100000, 1000000, TRUE, 10, 100000),
      BM(-3000, 1, 0, FALSE, 0, 0) }

SM(followers, eng, rep, ver, neg) ==
    [social_media_followers |-> followers, social_engagement_rate |-> eng,
     community_reputation |-> rep, verified_accounts |-> ver,
     negative_sentiment_ratio |-> neg]

SocialBundles ==
    { SM(<<>>, R(0), R(0), 0, R(0)),
      SM([twitter |-> 500, instagram |-> 500], Frac(1, 2), Frac(9, 10), 2, Frac(1, 10)),
      SM([twitter |-> 1000000], R(1), R(1), 0, Frac(1, 4)),
      SM([twitter |-> 0], R(0), R(0), 30, R(0)),
      SM([twitter |-> 10], R(0), R(0), 0, R(3)) }

AM(streams, followers, eng, freq, collab, awards) ==
    [total_streams |-> streams, monthly_listeners |-> 0,
     follower_count |-> followers, engagement_rate |-> eng,
     release_frequency |-> freq, collaboration_count |-> collab,
     awards_count |-> awards]

ArtistBundles ==
    { None,
      Some(AM(0, 0, R(0), R(0), 0, 0)),
      Some(AM(1000000, 10000, Frac(1, 10), R(1), 5, 2)),
      Some(AM(1000000000, 1000000, R(10), R(5), 30, 9)),
      Some(AM(1000000, 10000, R(10), R(5), 30, 9)),
      Some(AM(0, 0, R(-10), R(0), 0, 0)) }

IM(invested, size, succ, fail, roi, div) ==
    [total_invested |-> invested, portfolio_size |-> size,
     successful_investments |-> succ, failed_investments |-> fail,
     average_roi |-> roi, investment_duration_avg |-> 0,
     diversification_score |-> div]

InvestorBundles ==
    { None,
      Some(IM(5000000, 10, 3, 1, Frac(1, 2), Frac(1, 2))),
      Some(IM(100000, -200, 0, 4, Frac(-1, 2), R(-2))) }

CreditScoreRequests ==
    [user_id : {"u1"}, user_type : UserType,
     financial_history : FinancialHistories,
     artist_metrics : ArtistBundles, investor_metrics : InvestorBundles,
     blockchain_metrics : BlockchainBundles, social_metrics : SocialBundles]

---------------------------------------------------------------------------
(* The risk requests the model submits.                                    *)

PricePoints(n) == [i \in 1..n |-> [price |-> 1]]

MD(points, vol, beta, corr, sentiment) ==
    [price_history |-> PricePoints(points), volatility |-> vol, beta |-> beta,
     correlation_matrix |-> corr, market_sentiment |-> sentiment]

MarketDatas ==
    { MD(0, R(0), R(0), <<>>, R(0)),
      MD(31, Frac(1, 10), Frac(3, 2), [market |-> Frac(1, 2)], Frac(1, 2)),
      MD(10, Frac(1, 5), R(1), <<>>, Frac(-1, 2)),
      MD(31, Frac(1, 2), R(-3), [market |-> Frac(9, 10), sector |-> R(1)], R(-1)) }

AI(type, cap, vol) ==
    Some([asset_id |-> "a1", asset_type |-> type, market_cap |-> cap,
          volume_24h |-> vol])

AssetInfos ==
    { None,
      AI("music_token", 500000, 1000),
      AI("royalty_stream", 50000000, 1000000),
      AI("label_equity", 5000000, 50000),
      AI("artist_share", 0, 0),
      AI("platform_token", 0, 50000) }

\* assessment_types lists: the empty list, every single type, lists of
\* several types in and out of declaration order, a type listed twice, and
\* all six types.
AssessmentTypeLists ==
    { <<>> } \cup { <<t>> : t \in RiskType } \cup
    { <<"market", "credit">>, <<"credit", "market">>,
      <<"liquidity", "liquidity">>, <<"market", "technology">>,
      <<"market", "credit", "liquidity">>,
      <<"market", "credit", "liquidity", "regulatory">>,
      <<"market", "credit", "liquidity", "operational", "regulatory", "technology">> }

RiskAssessmentRequests ==
    [assessment_id : {"r1"}, asset_info : AssetInfos, market_data : MarketDatas,
     time_horizon : TimeHorizon, assessment_types : AssessmentTypeLists]

\* One tuple of draws for each sub-scorer call the request leads to.
RECURSIVE DrawSequences(_)
DrawSequences(types) ==
    IF types = <<>> THEN { <<>> }
    ELSE { <<u>> \o rest : u \in DrawsOf(Head(types)),
                           rest \in DrawSequences(Tail(types)) }

---------------------------------------------------------------------------
(* The batches the model submits: every list of up to MaxSmallBatch items, *)
(* and lists whose length is within BatchMargin of the endpoint's limit.   *)

MaxSmallBatch == 3
BatchMargin == 1

\* if len(requests) > 100 / > 50
CreditBatchLimit == 100
RevenueBatchLimit == 50

CR(type, fh, am, im, bm, sm) ==
    [user_id |-> "u1", user_type |-> type, financial_history |-> fh,
     artist_metrics |-> am, investor_metrics |-> im, blockchain_metrics |-> bm,
     social_metrics |-> sm]

CreditBatchItems ==
    { CR("artist", FH(0, 0, 0, 0, 0), None, None,
         BM(0, 0, 0, FALSE, 0, 0), SM(<<>>, R(0), R(0), 0, R(0))),
      CR("artist", FH(20000, 0, 0, 20, 2500),
         Some(AM(1000000, 10000, Frac(1, 10), R(1), 5, 2)), None,
         BM(365, 100, 1000, TRUE, 6, 5000),
         SM([twitter |-> 500, instagram |-> 500], Frac(1, 2), Frac(9, 10), 2, Frac(1, 10))),
      CR("investor", FH(2000000, 0, 0, 20, 10000), None,
         Some(IM(5000000, 10, 3, 1, Frac(1, 2), Frac(1, 2))),
         BM(1000, 100000, 1000000, TRUE, 10, 100000),
         SM([twitter |-> 0], R(0), R(0), 30, R(0))),
      CR("label", FH(-5000, 10, 0, 2, 0), None, None,
         BM(-3000, 1, 0, FALSE, 0, 0), SM([twitter |-> 10], R(0), R(0), 0, R(3))),
      CR("artist", FH(0, 0, 0, 0, 0),
         Some(AM(WideInt, 0, R(0), R(0), 0, 0)), None,
         BM(0, 0, 0, FALSE, 0, 0), SM(<<>>, R(0), R(0), 0, R(0))) }

PR(genre, duration, days_ago, aware, hist, mc, period) ==
    [music_metadata |-> [title |-> "t1", genre |-> genre, duration |-> duration,
                         release_date |-> [days_ago |-> days_ago, aware |-> aware]],
     historical_data |-> hist, market_conditions |-> mc,
     prediction_period |-> period]

RevenueBatchItems ==
    { PR("pop", 180, 0, FALSE, None, None, 365),
      PR("jazz", 360, 365, FALSE, Some([revenue |-> <<R(100), R(300)>>]),
         Some([genre_popularity |-> Frac(1, 2), seasonal_factor |-> R(2)]), 730),
      PR("rock", 90, 0, TRUE, None, None, 365),
      PR("polka", 30, 1460, TRUE, Some([revenue |-> <<>>]), None, 1095) }

\* All lists over items of length 0..n
RECURSIVE ListsUpTo(_, _)
ListsUpTo(items, n) ==
    IF n = 0 THEN { <<>> }
    ELSE LET shorter == ListsUpTo(items, n - 1)
         IN  shorter \cup { Append(l, x) : l \in shorter, x \in items }

\* The list of length n that repeats the pattern
Repeat(pattern, n) == [i \in 1..n |-> pattern[((i - 1) % Len(pattern)) + 1]]

Batches(items, limit) ==
    ListsUpTo(items, MaxSmallBatch) \cup
    { Repeat(p, n) : p \in { l \in ListsUpTo(items, 2) : Len(l) > 0 },
                     n \in (limit - BatchMargin)..(limit + BatchMargin) }

---------------------------------------------------------------------------
(* The service: one request is handled at a time; its response is held     *)
(* until it is delivered to the caller.                                    *)

NoRequest  == [kind |-> "none"]
NoResponse == [status |-> 0, detail |-> <<>>, body |-> [kind |-> "none"]]
NoDraws    == [kind |-> "none"]
NoClock    == <<>>

\* The values of the datetime.now() calls made while a result is assembled,
\* in call order, in seconds from the first one: the clock has or has not
\* advanced when it is read again.  A call that has raised before it gets to
\* assemble its result reads no clock.
ClockSteps == {0, 1}

ClockReads(raised) ==
    IF raised THEN { NoClock }
    ELSE { <<0, 0 + step>> : step \in ClockSteps }

\* timedelta(days=90), timedelta(hours=24), in seconds
ReviewHorizon == 90 * 86400
ValidityHorizon == 24 * 3600

\* A function extended with the fields of another.
WithFields(rec, more) ==
    [f \in DOMAIN rec \cup DOMAIN more |->
       IF f \in DOMAIN more THEN more[f] ELSE rec[f]]

\* Mutant of calculate_credit_score_at: the score perturbed by the clock.
calculate_credit_score_at_clock_seeded(req, now) ==
    LET outcome == calculate_credit_score(req)
    IN  IF outcome.raised THEN outcome
        ELSE Return(WithFields(outcome.value,
                               [credit_score |-> outcome.value.credit_score + now[2],
                                next_review_date |-> now[1] + ReviewHorizon,
                                created_at |-> now[2]]))

\* calculate_credit_score with the clock it reads: next_review is computed
\* from the first datetime.now(), created_at is the second.
calculate_credit_score_at(req, now) ==
    LET outcome == calculate_credit_score(req)
    IN  IF outcome.raised THEN outcome
        ELSE Return(WithFields(outcome.value,
                               [next_review_date |-> now[1] + ReviewHorizon,
                                created_at |-> now[2]]))

\* assess_risk with the clock it reads: created_at is the first
\* datetime.now(), valid_until is computed from the second.
assess_risk_at(req, us, now) ==
    LET outcome == assess_risk(req, us)
    IN  IF outcome.raised THEN outcome
        ELSE Return(WithFields(outcome.value,
                               [created_at |-> now[1],
                                valid_until |-> now[2] + ValidityHorizon]))

\* What FastAPI sends: the returned value with status 200, or, for an
\* HTTPException, main.py's http_exception_handler response.
ResponseOf(outcome) ==
    IF outcome.raised
    THEN [status |-> outcome.exc.status, detail |-> outcome.exc.detail,
          body |-> [kind |-> "none"]]
    ELSE [status |-> 200, detail |-> <<>>, body |-> outcome.value]

\* Mutant of RouteExcept: the message of the exception is dropped.
RouteExcept_without_message(outcome) ==
    IF outcome.raised
    THEN Raise(HTTPException(500, <<>>))
    ELSE outcome

\* The wrapper every route puts around its body:
\*   except Exception as e: raise HTTPException(status_code=500, detail=str(e))
RouteExcept(outcome) ==
    IF outcome.raised
    THEN Raise(HTTPException(500, StrOfHTTPException(outcome.exc)))
    ELSE outcome

Init ==
    /\ endpoint = "idle"
    /\ request = NoRequest
    /\ response = NoResponse
    /\ draws = NoDraws
    /\ clock = NoClock
    /\ credit_model = CreditScoringModel

\* POST /credit/score
post_credit_score ==
    /\ endpoint = "idle"
    /\ \E req \in CreditScoreRequests :
         \E now \in ClockReads(calculate_credit_score_raises(req)) :
           /\ request' = req
           /\ clock' = now
           /\ response' = ResponseOf(RouteExcept(calculate_credit_score_at(req, now)))
    /\ endpoint' = "credit_score"
    /\ draws' = NoDraws
    /\ UNCHANGED credit_model

\* POST /credit/score once more, by a caller that repeats the request it
\* has just been answered; the earlier response is kept beside the new one.
post_credit_score_again ==
    /\ endpoint = "credit_score"
    /\ \E now \in ClockReads(calculate_credit_score_raises(request)) :
         /\ clock' = now
         /\ response' =
              WithFields(ResponseOf(RouteExcept(calculate_credit_score_at(request, now))),
                         [previous |-> response])
    /\ endpoint' = "credit_score_again"
    /\ UNCHANGED <<request, draws>>
    /\ UNCHANGED credit_model

\* POST /risk/assess, for the requests of a given set
risk_assess_route(requests) ==
    /\ endpoint = "idle"
    /\ \E req \in requests :
         \E us \in DrawSequences(req.assessment_types) :
           \E now \in ClockReads(assess_risk_raises(req)) :
             /\ request' = req
             /\ draws' = us
             /\ clock' = now
             /\ response' = ResponseOf(RouteExcept(assess_risk_at(req, us, now)))
    /\ endpoint' = "risk_assess"
    /\ UNCHANGED credit_model

post_risk_assess == risk_assess_route(RiskAssessmentRequests)

\* The requests whose callers repeat them: those for at most
\* MaxRepeatedTypes risk types.
MaxRepeatedTypes == 2

RepeatedRiskRequests ==
    {req \in RiskAssessmentRequests : Len(req.assessment_types) <= MaxRepeatedTypes}

post_risk_assess_first == risk_assess_route(RepeatedRiskRequests)

\* POST /risk/assess once more, by a caller that repeats the request it has
\* just been answered; the sub-scorers draw afresh, and the earlier response
\* is kept beside the new one.
post_risk_assess_again ==
    /\ endpoint = "risk_assess"
    /\ \E us \in DrawSequences(request.assessment_types) :
         \E now \in ClockReads(assess_risk_raises(request)) :
           /\ draws' = us
           /\ clock' = now
           /\ response' =
                WithFields(ResponseOf(RouteExcept(assess_risk_at(request, us, now))),
                           [previous |-> response])
    /\ endpoint' = "risk_assess_again"
    /\ UNCHANGED request
    /\ UNCHANGED credit_model

\* One pass of the loop of a batch route: the entry appended for item i
\* (enumerate counts from 0).  key is "result" or "prediction".
CreditBatchEntry(i, outcome) ==
    IF outcome.raised
    THEN [index |-> i, success |-> FALSE, error |-> StrOfHTTPException(outcome.exc)]
    ELSE [index |-> i, success |-> TRUE, result |-> outcome.value]

\* Mutant of RevenueBatchEntry: positions counted from 1.
RevenueBatchEntry_from_one(i, outcome) ==
    IF outcome.raised
    THEN [index |-> i + 1, success |-> FALSE, error |-> StrOfHTTPException(outcome.exc)]
    ELSE [index |-> i + 1, success |-> TRUE, prediction |-> outcome.value]

RevenueBatchEntry(i, outcome) ==
    IF outcome.raised
    THEN [index |-> i, success |-> FALSE, error |-> StrOfHTTPException(outcome.exc)]
    ELSE [index |-> i, success |-> TRUE, prediction |-> outcome.value]

\* One pass of "for i, request in enumerate(requests)": the try block around
\* the scoring call, whose except clause turns any exception into an entry.
\* The pass itself therefore never raises.
\* Mutant of credit_batch_pass: the scoring call without the try block.
credit_batch_pass_uncaught(i, req) ==
    LET outcome == calculate_credit_score(req)
    IN  IF outcome.raised THEN outcome ELSE Return(CreditBatchEntry(i, outcome))

credit_batch_pass(i, req) ==
    Return(CreditBatchEntry(i, calculate_credit_score(req)))

revenue_batch_pass(i, req) ==
    Return(RevenueBatchEntry(i, predict_revenue(req)))

\* An exception that leaves a pass leaves the loop at that pass: the loop
\* raises what its first raising pass raises, and the results are lost.
LoopRaises(passes) == \E i \in 1..Len(passes) : passes[i].raised

LoopException(passes) ==
    LET first == CHOOSE i \in 1..Len(passes) :
                   /\ passes[i].raised
                   /\ \A j \in 1..(i - 1) : ~passes[j].raised
    IN  passes[first].exc

\* Mutant of CountSuccessful: every entry counted.
CountSuccessful_all(results) == Len(results)

\* sum(1 for r in results if r["success"])
CountSuccessful(results) ==
    Cardinality({i \in 1..Len(results) : results[i].success})

\* np.mean([r["result"].credit_score for r in results if r["success"]]),
\* for results with at least one success.  The sum is taken by halving the
\* index range.
RECURSIVE SumSuccessfulScores(_, _, _)
SumSuccessfulScores(results, lo, hi) ==
    IF lo > hi THEN 0
    ELSE IF lo = hi
         THEN IF results[lo].success THEN results[lo].result.credit_score ELSE 0
    ELSE LET mid == (lo + hi) \div 2
         IN  SumSuccessfulScores(results, lo, mid)
               + SumSuccessfulScores(results, mid + 1, hi)

MeanSuccessfulScore(results) ==
    Frac(SumSuccessfulScores(results, 1, Len(results)), CountSuccessful(results))

\* Mutant of batch_credit_scoring: "len(requests) >= 100" for "> 100".
batch_credit_scoring_body_off_by_one(requests) ==
    IF Len(requests) >= CreditBatchLimit
    THEN Raise(HTTPException(400, <<"Batch size too large (max 100)">>))
    ELSE Return([kind |-> "batch", success |-> TRUE,
                 results |-> [i \in 1..Len(requests) |->
                                CreditBatchEntry(i - 1, calculate_credit_score(requests[i]))],
                 summary |-> [total_requests |-> Len(requests)]])

\* batch_credit_scoring: the body of the route's try block
batch_credit_scoring_body(requests) ==
    IF Len(requests) > CreditBatchLimit
    THEN Raise(HTTPException(400, <<"Batch size too large (max 100)">>))
    ELSE
      LET passes == [i \in 1..Len(requests) |->
                       credit_batch_pass(i - 1, requests[i])]
          results == [i \in 1..Len(requests) |-> passes[i].value]
          successful_scores == CountSuccessful(results)
      IN  IF LoopRaises(passes) THEN Raise(LoopException(passes))
          ELSE Return([kind |-> "batch", success |-> TRUE, results |-> results,
                  summary |->
                    [total_requests |-> Len(requests),
                     successful |-> successful_scores,
                     failed |-> Len(requests) - successful_scores,
                     average_score |->
                       IF successful_scores > 0
                       THEN MeanSuccessfulScore(results) ELSE R(0)]])

\* batch_predict_revenue: the body of the route's try block
batch_predict_revenue_body(requests) ==
    IF Len(requests) > RevenueBatchLimit
    THEN Raise(HTTPException(400, <<"Batch size too large (max 50)">>))
    ELSE
      LET passes == [i \in 1..Len(requests) |->
                       revenue_batch_pass(i - 1, requests[i])]
          results == [i \in 1..Len(requests) |-> passes[i].value]
          successful_predictions == CountSuccessful(results)
      IN  IF LoopRaises(passes) THEN Raise(LoopException(passes))
          ELSE Return([kind |-> "batch", success |-> TRUE, results |-> results,
                  summary |->
                    [total_requests |-> Len(requests),
                     successful |-> successful_predictions,
                     failed |-> Len(requests) - successful_predictions]])

\* POST /credit/batch-score
batch_credit_scoring ==
    /\ endpoint = "idle"
    /\ \E requests \in Batches(CreditBatchItems, CreditBatchLimit) :
         /\ request' = requests
         /\ response' = ResponseOf(RouteExcept(batch_credit_scoring_body(requests)))
    /\ endpoint' = "credit_batch"
    /\ draws' = NoDraws
    /\ clock' = NoClock
    /\ UNCHANGED credit_model

\* POST /revenue/batch-predict
batch_predict_revenue ==
    /\ endpoint = "idle"
    /\ \E requests \in Batches(RevenueBatchItems, RevenueBatchLimit) :
         /\ request' = requests
         /\ response' = ResponseOf(RouteExcept(batch_predict_revenue_body(requests)))
    /\ endpoint' = "revenue_batch"
    /\ draws' = NoDraws
    /\ clock' = NoClock
    /\ UNCHANGED credit_model

---------------------------------------------------------------------------
(* risk_assessment.py: POST /stress-test                                   *)

\* The lengths of the asset and scenario lists the model submits.
MaxAssets == 2
MaxScenarios == 2

AssetIds == {"a1", "a2"}
ScenarioNames == {"market_crash", "liquidity_crisis", "custom"}
Severities == {Frac(1, 2), R(1)}

StressTestRequests ==
    [asset_ids : ListsUpTo(AssetIds, MaxAssets),
     stress_scenarios : ListsUpTo(ScenarioNames, MaxScenarios),
     severity : Severities]

\* np.random.uniform(lo, hi) of the impact of a scenario, as <<lo, hi>>
stress_impact_range(scenario) ==
    CASE scenario = "market_crash"     -> <<Frac(3, 10), Frac(8, 10)>>
      [] scenario = "liquidity_crisis" -> <<Frac(2, 10), Frac(6, 10)>>
      [] scenario = "regulatory_shock" -> <<Frac(1, 10), Frac(5, 10)>>
      [] OTHER                         -> <<Frac(1, 10), Frac(4, 10)>>

\* The random draws of one request: one per pass of the inner loop (the
\* three draws of a pass are all at the low end or all at the high end) and
\* one per pass of the portfolio loop that gets as far as its draw (with no
\* assets the first pass raises before it).
StressDraws(req) ==
    [cells : [(1..Len(req.asset_ids)) \X (1..Len(req.stress_scenarios))
                -> {"lo", "hi"}],
     correlation : [(IF req.asset_ids = <<>> THEN {}
                     ELSE 1..Len(req.stress_scenarios)) -> {"lo", "hi"}]]

\* asset_results[scenario] = {...}: the value one pass of the inner loop stores
stress_cell(scenario, severity, u) ==
    LET range == stress_impact_range(scenario)
    IN  [potential_loss |-> RMul(severity, IF u = "lo" THEN range[1] ELSE range[2]),
         recovery_time_days |-> IF u = "lo" THEN 30 ELSE 364,
         probability |-> IF u = "lo" THEN Frac(5, 100) ELSE Frac(30, 100)]

\* The keys of a dict filled by a loop over list, and the pass that wrote the
\* value a key ends with: the last one for that key.
KeysOf(list) == {list[i] : i \in 1..Len(list)}

LastPassOf(list, key) ==
    CHOOSE i \in 1..Len(list) :
      /\ list[i] = key
      /\ \A j \in (i + 1)..Len(list) : list[j] # key

\* results: the dict of dicts the nested loops leave
stress_results(req, us) ==
    [aid \in KeysOf(req.asset_ids) |->
       [scenario \in KeysOf(req.stress_scenarios) |->
          stress_cell(scenario, req.severity,
                      us.cells[<<LastPassOf(req.asset_ids, aid),
                                 LastPassOf(req.stress_scenarios, scenario)>>])]]

\* max(list) of a non-empty list of rationals
RECURSIVE MaxOf(_)
MaxOf(list) ==
    IF Len(list) = 1 THEN list[1] ELSE PyMax(list[1], MaxOf(Tail(list)))

\* portfolio_impact: the dict the second loop leaves (asset_ids not empty)
stress_portfolio_impact(req, us) ==
    LET results == stress_results(req, us)
    IN  [scenario \in KeysOf(req.stress_scenarios) |->
           LET losses == [i \in 1..Len(req.asset_ids) |->
                            results[req.asset_ids[i]][scenario].potential_loss]
               u == us.correlation[LastPassOf(req.stress_scenarios, scenario)]
           IN  [average_loss |-> Mean(losses),
                worst_case_loss |-> MaxOf(losses),
                correlation_adjustment |->
                  IF u = "lo" THEN Frac(11, 10) ELSE Frac(15, 10)]]

\* max([]) raises ValueError: the portfolio loop runs a pass with no assets.
perform_stress_test_raises(req) ==
    req.asset_ids = <<>> /\ req.stress_scenarios # <<>>

\* perform_stress_test: the body of the route's try block
perform_stress_test_body(req, us) ==
    IF perform_stress_test_raises(req)
    THEN Raise(PyException("ValueError"))
    ELSE Return([kind |-> "stress_test", success |-> TRUE,
                 data |-> [individual_assets |-> stress_results(req, us),
                           portfolio_impact |-> stress_portfolio_impact(req, us),
                           test_parameters |->
                             [severity |-> req.severity,
                              scenarios_tested |-> req.stress_scenarios,
                              assets_count |-> Len(req.asset_ids)]]])

\* POST /risk/stress-test
perform_stress_test ==
    /\ endpoint = "idle"
    /\ \E req \in StressTestRequests :
         \E us \in StressDraws(req) :
           /\ request' = req
           /\ draws' = us
           /\ response' = ResponseOf(RouteExcept(perform_stress_test_body(req, us)))
    /\ endpoint' = "stress_test"
    /\ clock' = NoClock
    /\ UNCHANGED credit_model

\* The response leaves the service; the next request can be taken.
Deliver ==
    /\ endpoint # "idle"
    /\ endpoint' = "idle"
    /\ request' = NoRequest
    /\ response' = NoResponse
    /\ draws' = NoDraws
    /\ clock' = NoClock
    /\ UNCHANGED credit_model

Next ==
    \/ post_credit_score
    \/ post_credit_score_again
    \/ post_risk_assess
    \/ post_risk_assess_first
    \/ post_risk_assess_again
    \/ batch_credit_scoring
    \/ batch_predict_revenue
    \/ perform_stress_test
    \/ Deliver

Spec == Init /\ [][Next]_vars

\* The service restricted to one domain's routes.
NextCredit == post_credit_score \/ Deliver
SpecCredit == Init /\ [][NextCredit]_vars

\* The credit route with callers that repeat a request.
NextCreditRepeat == post_credit_score \/ post_credit_score_again \/ Deliver
SpecCreditRepeat == Init /\ [][NextCreditRepeat]_vars

\* The two single-item assessment routes together.
NextAssess == post_credit_score \/ post_risk_assess \/ Deliver
SpecAssess == Init /\ [][NextAssess]_vars

NextRisk == post_risk_assess \/ Deliver
SpecRisk == Init /\ [][NextRisk]_vars

\* The risk route with callers that repeat a request.
NextRiskRepeat == post_risk_assess_first \/ post_risk_assess_again \/ Deliver
SpecRiskRepeat == Init /\ [][NextRiskRepeat]_vars

NextStress == perform_stress_test \/ Deliver
SpecStress == Init /\ [][NextStress]_vars

NextBatch == batch_credit_scoring \/ batch_predict_revenue \/ Deliver
SpecBatch == Init /\ [][NextBatch]_vars

---------------------------------------------------------------------------
(* The two classifiers applied to every score of their domain: the credit  *)
(* score is an integer of 300..850, the risk score a float of [0, 100],    *)
(* taken here on the grid of multiples of 1/ScoreDenominator.              *)

ScoreDenominator == 2

ClassifierInputs ==
    { [kind |-> "score", domain |-> "credit", score |-> R(n)] : n \in 300..850 }
    \cup
    { [kind |-> "score", domain |-> "risk", score |-> Frac(k, ScoreDenominator)] :
        k \in 0..(100 * ScoreDenominator) }

InitClassify ==
    /\ endpoint = "classify"
    /\ request \in ClassifierInputs
    /\ response = NoResponse
    /\ draws = NoDraws
    /\ clock = NoClock
    /\ credit_model = CreditScoringModel

\* credit_model._determine_credit_grade(score), _determine_risk_level(score)
classify_credit_score ==
    /\ endpoint = "classify"
    /\ request.domain = "credit"
    /\ response = NoResponse
    /\ response' = [status |-> 200, detail |-> <<>>,
                    body |-> [kind |-> "classification",
                              credit_grade |-> determine_credit_grade(request.score[1]),
                              risk_level |-> credit_determine_risk_level(request.score[1])]]
    /\ UNCHANGED <<endpoint, request, draws, clock>>
    /\ UNCHANGED credit_model

\* risk_model._determine_risk_level(score)
classify_risk_score ==
    /\ endpoint = "classify"
    /\ request.domain = "risk"
    /\ response = NoResponse
    /\ response' = [status |-> 200, detail |-> <<>>,
                    body |-> [kind |-> "classification",
                              risk_level |-> determine_risk_level(request.score)]]
    /\ UNCHANGED <<endpoint, request, draws, clock>>
    /\ UNCHANGED credit_model

NextClassify == classify_credit_score \/ classify_risk_score
SpecClassify == InitClassify /\ [][NextClassify]_vars

---------------------------------------------------------------------------
(* _calculate_financial_score on its own, over a grid of financial        *)
(* histories (pydantic puts no bound on any field).                        *)

FinancialHistoryGrid ==
    { FH(rev, def, late, tx, avg) :
        rev \in {-5000, 0, 500, 20000}, def \in {-1, 0, 1}, late \in {0, 3},
        tx \in {0, 2, 20}, avg \in {-100, 0, 2500} }

InitFinancial ==
    /\ endpoint = "financial_score"
    /\ request \in { [kind |-> "financial", financial_history |-> fh] :
                       fh \in FinancialHistoryGrid }
    /\ response = NoResponse
    /\ draws = NoDraws
    /\ clock = NoClock
    /\ credit_model = CreditScoringModel

\* financial_score = self._calculate_financial_score(request.financial_history)
score_financial_history ==
    /\ endpoint = "financial_score"
    /\ response = NoResponse
    /\ response' = [status |-> 200, detail |-> <<>>,
                    body |-> [kind |-> "financial_score",
                              financial_score |->
                                calculate_financial_score(request.financial_history)]]
    /\ UNCHANGED <<endpoint, request, draws, clock>>
    /\ UNCHANGED credit_model

NextFinancial == score_financial_history
SpecFinancial == InitFinancial /\ [][NextFinancial]_vars

---------------------------------------------------------------------------
(* The two _calculate_confidence functions on pairs of requests that       *)
(* differ in the fields the functions read.                                *)

CreditConfidenceInputs ==
    { CR(type, FH(0, 0, 0, tx, 0), am, None, BM(0, btx, 0, FALSE, 0, 0),
         SM(followers, R(0), R(0), 0, R(0))) :
        type \in {"artist", "investor"}, tx \in {0, 10, 11}, btx \in {50, 51},
        followers \in {<<>>, [twitter |-> 0]},
        am \in {None, Some(AM(1000, 0, R(0), R(0), 0, 0)),
                Some(AM(1001, 0, R(0), R(0), 0, 0))} }

RiskConfidenceInputs ==
    [assessment_id : {"r1"},
     asset_info : {None, AI("music_token", 0, 0), AI("music_token", 1, 0)},
     market_data : { MD(points, vol, R(0), <<>>, R(0)) :
                       points \in {30, 31}, vol \in {Frac(-1, 10), R(0), Frac(1, 10)} },
     time_horizon : {"short_term"},
     assessment_types : { <<"market", "credit", "liquidity">>,
                          <<"market", "credit", "liquidity", "regulatory">> }]

InitConfidence ==
    /\ endpoint = "confidence"
    /\ request \in
         { [kind |-> "pair", domain |-> "credit", first |-> a, second |-> b] :
             a \in CreditConfidenceInputs, b \in CreditConfidenceInputs }
         \cup
         { [kind |-> "pair", domain |-> "risk", first |-> a, second |-> b] :
             a \in RiskConfidenceInputs, b \in RiskConfidenceInputs }
    /\ response = NoResponse
    /\ draws = NoDraws
    /\ clock = NoClock
    /\ credit_model = CreditScoringModel

\* confidence = self._calculate_confidence(request), in CreditScoringModel,
\* for each request of the pair
credit_confidence_of_pair ==
    /\ endpoint = "confidence"
    /\ request.domain = "credit"
    /\ response = NoResponse
    /\ response' = [status |-> 200, detail |-> <<>>,
                    body |-> [kind |-> "confidence_pair",
                              first |-> credit_calculate_confidence(request.first),
                              second |-> credit_calculate_confidence(request.second)]]
    /\ UNCHANGED <<endpoint, request, draws, clock>>
    /\ UNCHANGED credit_model

\* confidence = self._calculate_confidence(request), in RiskAssessmentModel,
\* for each request of the pair
risk_confidence_of_pair ==
    /\ endpoint = "confidence"
    /\ request.domain = "risk"
    /\ response = NoResponse
    /\ response' = [status |-> 200, detail |-> <<>>,
                    body |-> [kind |-> "confidence_pair",
                              first |-> risk_calculate_confidence(request.first),
                              second |-> risk_calculate_confidence(request.second)]]
    /\ UNCHANGED <<endpoint, request, draws, clock>>
    /\ UNCHANGED credit_model

NextConfidence == credit_confidence_of_pair \/ risk_confidence_of_pair
SpecConfidence == InitConfidence /\ [][NextConfidence]_vars

---------------------------------------------------------------------------
(* The artist, investor and social sub-scorers on bundles where every      *)
(* signal takes a small and a large magnitude.                             *)

ArtistTermInputs ==
    { AM(streams, followers, eng, freq, collab, awards) :
        streams \in {0, 1000000}, followers \in {0, 10000},
        eng \in {R(0), Frac(1, 2), R(1), R(10)}, freq \in {R(0), R(5)},
        collab \in {0, 30}, awards \in {0, 9} }

InvestorTermInputs ==
    { IM(invested, size, outcome[1], outcome[2], roi, div) :
        invested \in {0, 10000000}, size \in {0, 40},
        outcome \in {<<0, 0>>, <<3, 1>>}, roi \in {R(0), R(2)},
        div \in {R(0), Frac(1, 2), R(1), R(5)} }

SocialTermInputs ==
    { SM(followers, eng, rep, ver, neg) :
        followers \in {<<>>, [twitter |-> 1000000]},
        eng \in {R(0), R(1), R(10)}, rep \in {R(0), R(1), R(10)},
        ver \in {0, 2, 30}, neg \in {R(0), Frac(1, 4)} }

InitTerms ==
    /\ endpoint = "sub_score"
    /\ request \in
         { [kind |-> "bundle", scorer |-> "artist", bundle |-> b] :
             b \in ArtistTermInputs }
         \cup
         { [kind |-> "bundle", scorer |-> "investor", bundle |-> b] :
             b \in InvestorTermInputs }
         \cup
         { [kind |-> "bundle", scorer |-> "social", bundle |-> b] :
             b \in SocialTermInputs }
    /\ response = NoResponse
    /\ draws = NoDraws
    /\ clock = NoClock
    /\ credit_model = CreditScoringModel

SubScoreResponse(terms, score) ==
    [status |-> 200, detail |-> <<>>,
     body |-> [kind |-> "sub_score", terms |-> terms, score |-> score]]

\* specific_score = self._calculate_artist_score(request.artist_metrics)
score_artist_metrics ==
    /\ endpoint = "sub_score"
    /\ request.scorer = "artist"
    /\ response = NoResponse
    /\ response' = SubScoreResponse(artist_score_terms(request.bundle),
                                    calculate_artist_score(request.bundle))
    /\ UNCHANGED <<endpoint, request, draws, clock>>
    /\ UNCHANGED credit_model

\* specific_score = self._calculate_investor_score(request.investor_metrics)
score_investor_metrics ==
    /\ endpoint = "sub_score"
    /\ request.scorer = "investor"
    /\ response = NoResponse
    /\ response' = SubScoreResponse(investor_score_terms(request.bundle),
                                    calculate_investor_score(request.bundle))
    /\ UNCHANGED <<endpoint, request, draws, clock>>
    /\ UNCHANGED credit_model

\* social_score = self._calculate_social_score(request.social_metrics)
score_social_metrics ==
    /\ endpoint = "sub_score"
    /\ request.scorer = "social"
    /\ response = NoResponse
    /\ response' = SubScoreResponse(social_score_terms(request.bundle),
                                    calculate_social_score(request.bundle))
    /\ UNCHANGED <<endpoint, request, draws, clock>>
    /\ UNCHANGED credit_model

NextTerms == score_artist_metrics \/ score_investor_metrics \/ score_social_metrics
SpecTerms == InitTerms /\ [][NextTerms]_vars

---------------------------------------------------------------------------
(* _generate_risk_scenarios on requests and overall scores of every kind.  *)

ScenarioRequests ==
    [assessment_id : {"r1"},
     asset_info : {None, AI("music_token", 500000, 1000)},
     market_data : { MD(0, R(0), R(0), <<>>, R(0)),
                     MD(31, Frac(1, 2), R(-3), [market |-> Frac(9, 10)], R(-1)) },
     time_horizon : TimeHorizon,
     assessment_types : { <<>>, <<"market", "credit">> }]

InitScenarios ==
    /\ endpoint = "risk_scenarios"
    /\ request \in [kind : {"scenario_call"}, request : ScenarioRequests,
                    overall_score : {R(0), Frac(101, 2), R(100)}]
    /\ response = NoResponse
    /\ draws = NoDraws
    /\ clock = NoClock
    /\ credit_model = CreditScoringModel

\* scenarios = await self._generate_risk_scenarios(request, overall_score)
generate_scenarios ==
    /\ endpoint = "risk_scenarios"
    /\ response = NoResponse
    /\ \E losses \in ScenarioDraws :
         /\ draws' = [kind |-> "scenarios", potential_loss |-> losses]
         /\ response' =
              [status |-> 200, detail |-> <<>>,
               body |-> [kind |-> "risk_scenarios",
                         risk_scenarios |->
                           generate_risk_scenarios(request.request,
                                                   request.overall_score, losses)]]
    /\ UNCHANGED <<endpoint, request, clock>>
    /\ UNCHANGED credit_model

NextScenarios == generate_scenarios
SpecScenarios == InitScenarios /\ [][NextScenarios]_vars

---------------------------------------------------------------------------
(* Two /credit calls in flight at once on the one global credit_model: a   *)
(* /score call, and a /score or /batch-score call whose loop yields at the *)
(* await of every pass.                                                    *)

\* CreditScoringModel.calculate_credit_score reading its tables from self
calculate_credit_score_on(self, req) ==
    LET weights == IF req.user_type = "artist"
                   THEN self.artist_weights ELSE self.investor_weights
        financial_score  == calculate_financial_score(req.financial_history)
        blockchain_score == calculate_blockchain_score(req.blockchain_metrics)
        social_score     == calculate_social_score(req.social_metrics)
        total == RSum(<< RMul(financial_score, weights.financial_history),
                         RMul(specific_score(req), specific_weight(weights)),
                         RMul(blockchain_score, weights.blockchain_metrics),
                         RMul(social_score, weights.social_metrics) >>)
        credit_score == clamp_credit_score(total)
        confidence   == credit_calculate_confidence(req)
    IN  IF calculate_credit_score_raises(req)
        THEN Raise(HTTPException(500, <<"Credit scoring failed", "TypeError">>))
        ELSE IF ~CreditScoreResultValid(credit_score, confidence)
        THEN Raise(HTTPException(500, <<"Credit scoring failed", "ValidationError">>))
        ELSE Return(
          [kind |-> "CreditScoreResult",
           user_id |-> req.user_id,
           credit_score |-> credit_score,
           credit_grade |-> FirstAtLeast(self.grade_thresholds, credit_score, "D"),
           risk_level |-> FirstAtLeast(self.risk_thresholds, credit_score, "very_high"),
           confidence |-> confidence,
           score_breakdown |->
             [financial_history |-> financial_score,
              specific_metrics |-> specific_score(req),
              blockchain_metrics |-> blockchain_score,
              social_metrics |-> social_score,
              weighted_total |-> R(credit_score)],
           risk_factors |-> credit_analyze_risk_factors(req, credit_score),
           positive_factors |-> analyze_positive_factors(req, credit_score),
           recommendations |-> credit_generate_recommendations(req, credit_score)])

\* Mutant of credit_model_after: scoring an artist who sent no artist metrics
\* zeroes the artist_metrics weight in the table it selected.
credit_model_after_zeroing_weight(self, req) ==
    IF req.user_type = "artist" /\ req.artist_metrics = None
    THEN [self EXCEPT !.artist_weights.artist_metrics = R(0)]
    ELSE self

\* The attributes of self when calculate_credit_score returns or raises: no
\* statement of the method or of the methods it calls assigns to them.
credit_model_after(self, req) == self

\* The request object when calculate_credit_score returns or raises: no
\* statement assigns to its fields.
request_after(req) == req

ConcurrentCalls ==
    { [route |-> "score", requests |-> <<r>>] : r \in CreditBatchItems }
    \cup
    { [route |-> "batch-score", requests |-> <<r1, r2>>] :
        r1 \in CreditBatchItems, r2 \in CreditBatchItems }

InitConcurrent ==
    /\ endpoint = "concurrent"
    /\ \E first \in {c \in ConcurrentCalls : c.route = "score"} :
         \E second \in ConcurrentCalls :
           /\ request = [kind |-> "calls", calls |-> <<first, second>>]
           /\ response =
                [status |-> 0, detail |-> <<>>,
                 body |-> [kind |-> "calls",
                           in_flight |-> <<first.requests, second.requests>>,
                           results |-> << <<>>, <<>> >>,
                           order |-> <<>>]]
    /\ draws = NoDraws
    /\ clock = NoClock
    /\ credit_model = CreditScoringModel

\* One await credit_model.calculate_credit_score(request) of call c, on its
\* i-th request.
ScoreInFlight(c, i) ==
    LET req == response.body.in_flight[c][i]
    IN  /\ response' =
             [response EXCEPT
                !.body.results[c] = Append(@, calculate_credit_score_on(credit_model, req)),
                !.body.in_flight[c][i] = request_after(req),
                !.body.order = Append(@, c)]
        /\ credit_model' = credit_model_after(credit_model, req)
        /\ UNCHANGED <<endpoint, request, draws, clock>>

\* POST /credit/score: result = await credit_model.calculate_credit_score(request)
concurrent_score ==
    /\ endpoint = "concurrent"
    /\ \E c \in 1..2 :
         /\ request.calls[c].route = "score"
         /\ response.body.results[c] = <<>>
         /\ ScoreInFlight(c, 1)

\* POST /credit/batch-score: one pass of the loop,
\* score_result = await credit_model.calculate_credit_score(request)
concurrent_batch_pass ==
    /\ endpoint = "concurrent"
    /\ \E c \in 1..2 :
         /\ request.calls[c].route = "batch-score"
         /\ Len(response.body.results[c]) < Len(request.calls[c].requests)
         /\ ScoreInFlight(c, Len(response.body.results[c]) + 1)

NextConcurrent == concurrent_score \/ concurrent_batch_pass
SpecConcurrent == InitConcurrent /\ [][NextConcurrent]_vars

---------------------------------------------------------------------------
(* _calculate_overall_risk and _determine_risk_level in float arithmetic,  *)
(* on requests whose sub-scores are whole numbers (which floats hold       *)
(* exactly), with the requested types in every order.                      *)

OverallTypes == {"market", "credit", "regulatory"}

\* Every list of one, two or three different types
OverallTypeLists ==
    { types \in UNION { [1..n -> OverallTypes] : n \in 1..3 } :
        \A i, j \in 1..Len(types) : types[i] = types[j] => i = j }

OverallRequests ==
    [assessment_id : {"r1"},
     asset_info : { None, AI("platform_token", 500000, 1000),
                    AI("royalty_stream", 50000000, 1000000) },
     market_data : { MD(0, R(0), R(0), <<>>, R(0)),
                     MD(31, Frac(1, 2), R(-3), <<>>, R(0)) },
     time_horizon : TimeHorizon,
     assessment_types : OverallTypeLists]

InitOverall ==
    /\ endpoint = "overall_risk"
    /\ request \in [kind : {"overall_call"}, request : OverallRequests]
    /\ response = NoResponse
    /\ draws = NoDraws
    /\ clock = NoClock
    /\ credit_model = CreditScoringModel

\* The loop of assess_risk, then
\*   overall_score = self._calculate_overall_risk(risk_scores, request.time_horizon)
\*   risk_level = self._determine_risk_level(overall_score)
overall_risk_of_scores ==
    /\ endpoint = "overall_risk"
    /\ response = NoResponse
    /\ \E us \in DrawSequences(request.request.assessment_types) :
         LET items         == risk_scores_items(request.request, us)
             overall_score == calculate_overall_risk_binary64(
                                  items, request.request.time_horizon)
         IN  /\ draws' = [kind |-> "risk", us |-> us]
             /\ response' =
                  [status |-> 200, detail |-> <<>>,
                   body |-> [kind |-> "overall_risk",
                             risk_scores |-> items,
                             overall_risk_score |-> overall_score,
                             risk_level |-> determine_risk_level_binary64(overall_score)]]
    /\ UNCHANGED <<endpoint, request, clock>>
    /\ UNCHANGED credit_model

NextOverall == overall_risk_of_scores
SpecOverall == InitOverall /\ [][NextOverall]_vars

---------------------------------------------------------------------------
(* Properties                                                              *)

\* The last part of an error detail: the exception the message reports.
LastOf(detail) == IF detail = <<>> THEN "" ELSE detail[Len(detail)]

CreditScored == endpoint = "credit_score" /\ response.status = 200
RiskAssessed == endpoint = "risk_assess" /\ response.status = 200

\* C1: every credit-scoring request yields a result whose credit_score is an
\* integer of 300..850; no request is refused because its score fell outside
\* the range the result type allows.
C1_CreditScoreInRange ==
    endpoint = "credit_score" =>
        IF response.status = 200
        THEN response.body.credit_score \in 300..850
        ELSE LastOf(response.detail) # "ValidationError"

\* C1 witness: a request whose weighted total is below 300 was scored, and
\* the score returned is 300.
C1_Witness ==
    /\ CreditScored
    /\ RLt(total_score(request), R(300))
    /\ response.body.credit_score = 300

\* C2: every risk assessment yields an overall_risk_score in [0, 100], for
\* every list of requested risk types (the empty list included) and every
\* time horizon; no request is refused because the score fell outside the
\* range the result type allows.
C2_OverallRiskInRange ==
    endpoint = "risk_assess" =>
        IF response.status = 200
        THEN /\ RLe(R(0), response.body.overall_risk_score)
             /\ RLe(response.body.overall_risk_score, R(100))
        ELSE LastOf(response.detail) # "ValidationError"

\* C2 witness: a short-term assessment of market risk alone, whose sub-score
\* sits at the upper clamp, returned the overall score 100.
C2_Witness ==
    /\ RiskAssessed
    /\ request.assessment_types = <<"market">>
    /\ request.time_horizon = "short_term"
    /\ response.body.overall_risk_score = R(100)

\* The credit grade bands of the specification: [lo, hi) for each grade.
GradeBands ==
    [AAA |-> <<800, 851>>, AA |-> <<750, 800>>, A |-> <<700, 750>>,
     BBB |-> <<650, 700>>, BB |-> <<600, 650>>, B |-> <<550, 600>>,
     CCC |-> <<500, 550>>, CC |-> <<450, 500>>, C |-> <<400, 450>>,
     D |-> <<300, 400>>]

\* Rank of a grade, D lowest.
GradeRank ==
    [D |-> 0, C |-> 1, CC |-> 2, CCC |-> 3, B |-> 4, BB |-> 5, BBB |-> 6,
     A |-> 7, AA |-> 8, AAA |-> 9]

\* C3: _determine_credit_grade gives every score of 300..850 the grade of
\* the band table (AAA iff >= 800, AA iff 750..799, ... D iff < 400), and
\* no lower score gets a better grade.
C3_GradeBands ==
    (endpoint = "classify" /\ request.domain = "credit"
       /\ response.body.kind = "classification") =>
        LET score == request.score[1]
            grade == response.body.credit_grade
        IN  /\ grade \in DOMAIN GradeBands
            /\ \A g \in DOMAIN GradeBands :
                 (grade = g) <=> (GradeBands[g][1] <= score /\ score < GradeBands[g][2])
            /\ \A lower \in 300..score :
                 GradeRank[determine_credit_grade(lower)] <= GradeRank[grade]

\* C3 witness: the scores 799 and 800, on either side of the AAA cutoff, were
\* classified (as AA and AAA).
C3_Witness ==
    /\ endpoint = "classify" /\ request.domain = "credit"
    /\ response.body.kind = "classification"
    /\ \/ request.score = R(800) /\ response.body.credit_grade = "AAA"
       \/ request.score = R(799) /\ response.body.credit_grade = "AA"

\* The risk level bands of the specification: (lo, hi] for each level, with
\* very_low closed at 0.
LevelBands ==
    [very_low |-> <<-1, 20>>, low |-> <<20, 40>>, medium |-> <<40, 60>>,
     high |-> <<60, 80>>, very_high |-> <<80, 95>>, extreme |-> <<95, 100>>]

LevelRank ==
    [very_low |-> 0, low |-> 1, medium |-> 2, high |-> 3, very_high |-> 4,
     extreme |-> 5]

BandLevel(score) ==
    CHOOSE l \in DOMAIN LevelBands :
        RLt(R(LevelBands[l][1]), score) /\ RLe(score, R(LevelBands[l][2]))

\* C4: the risk-domain _determine_risk_level gives every score of [0, 100]
\* the level of the band table (very_low iff <= 20, low iff (20, 40], medium
\* iff (40, 60], high iff (60, 80], very_high iff (80, 95], extreme iff > 95),
\* and no lower score gets a higher level.
C4_LevelBands ==
    (endpoint = "classify" /\ request.domain = "risk"
       /\ response.body.kind = "classification") =>
        LET score == request.score
            level == response.body.risk_level
        IN  /\ level \in DOMAIN LevelBands
            /\ \A l \in DOMAIN LevelBands :
                 (level = l) <=> (RLt(R(LevelBands[l][1]), score)
                                    /\ RLe(score, R(LevelBands[l][2])))
            /\ \A k \in 0..(100 * ScoreDenominator) :
                 RLe(Frac(k, ScoreDenominator), score) =>
                   LevelRank[determine_risk_level(Frac(k, ScoreDenominator))]
                     <= LevelRank[level]

\* C4 witness: the score 95, the last of very_high, and the first grid score
\* above it, classified extreme.
C4_Witness ==
    /\ endpoint = "classify" /\ request.domain = "risk"
    /\ response.body.kind = "classification"
    /\ \/ request.score = R(95) /\ response.body.risk_level = "very_high"
       \/ /\ RLt(R(95), request.score) /\ RLt(request.score, R(96))
          /\ response.body.risk_level = "extreme"

\* The four sub-scores the weighted sum of a credit request combines.
CreditSubScores(req) ==
    << calculate_financial_score(req.financial_history), specific_score(req),
       calculate_blockchain_score(req.blockchain_metrics),
       calculate_social_score(req.social_metrics) >>

\* C5 (as claimed): the weights multiplied into the four sub-scores sum to
\* 1.0 for every user type; when the four sub-scores are equal, the weighted
\* total before clamping equals that value.
C5_AppliedWeightsSumToOne ==
    endpoint = "credit_score" =>
        LET weights == select_weights(request.user_type)
            applied == RSum(<< weights.financial_history, specific_weight(weights),
                               weights.blockchain_metrics, weights.social_metrics >>)
            sub == CreditSubScores(request)
        IN  /\ applied = R(1)
            /\ (\A i \in 1..4 : sub[i] = sub[1]) => total_score(request) = sub[1]

\* The request carries no metric bundle for its own user type.
TypeBundleMissing(req) ==
    \/ req.user_type = "artist" /\ req.artist_metrics = None
    \/ req.user_type = "investor" /\ req.investor_metrics = None

\* The weight profiles in hundredths: financial, type-specific, blockchain,
\* social.
ProfileHundredths(user_type) ==
    IF user_type = "artist" THEN <<35, 25, 20, 15>> ELSE <<40, 30, 20, 10>>

\* max(300, min(850, int(x))) written out for a rational x.
CreditClampOf(x) ==
    LET i == IF x[1] >= 0 THEN x[1] \div x[2] ELSE -((-x[1]) \div x[2])
    IN  IF i > 850 THEN 850 ELSE IF i < 300 THEN 300 ELSE i

RiskHundredths ==
    [market |-> 30, credit |-> 25, liquidity |-> 20, operational |-> 10,
     regulatory |-> 10, technology |-> 5]

RequestedTypes(req) == {req.assessment_types[i] : i \in 1..Len(req.assessment_types)}

RECURSIVE RSumOver(_, _)
RSumOver(S, f) ==
    IF S = {} THEN R(0)
    ELSE LET t == CHOOSE t \in S : TRUE
         IN  RAdd(f[t], RSumOver(S \ {t}, f))

\* sum(score * weight) / sum(weight) over the requested types of a breakdown
WeightedMean(breakdown, types) ==
    RDiv(RSumOver(types, [t \in types |-> RMul(breakdown[t], R(RiskHundredths[t]))]),
         RSumOver(types, [t \in types |-> R(RiskHundredths[t])]))

HorizonFactor ==
    [short_term |-> R(1), medium_term |-> Frac(4, 5), long_term |-> Frac(3, 5)]

\* max(0, min(100, x)) written out for a rational x.
RiskClampOf(x) == IF RLt(R(100), x) THEN R(100) ELSE IF RLt(x, R(0)) THEN R(0) ELSE x

\* C8: the overall risk score is the weighted mean of the requested
\* sub-scores times the horizon factor (1.0, 0.8, 0.6), clamped to [0, 100],
\* and the level reported is the band of that decayed score.
C8_DecayBeforeClassification ==
    (RiskAssessed /\ request.assessment_types # <<>>) =>
        LET bd == response.body.risk_breakdown
            decayed == RMul(WeightedMean(bd, RequestedTypes(request)),
                            HorizonFactor[request.time_horizon])
        IN  /\ response.body.overall_risk_score = RiskClampOf(decayed)
            /\ response.body.overall_risk_level
                 = BandLevel(response.body.overall_risk_score)

\* C8 witness: a long-term assessment whose mean before the decay lies in
\* another band than the level reported.
C8_Witness ==
    /\ RiskAssessed /\ request.assessment_types # <<>>
    /\ request.time_horizon = "long_term"
    /\ BandLevel(WeightedMean(response.body.risk_breakdown, RequestedTypes(request)))
         # response.body.overall_risk_level

BatchHandled == endpoint \in {"credit_batch", "revenue_batch"}

\* The size limit of the batch route that ran.
LimitOf(route) == IF route = "credit_batch" THEN 100 ELSE 50

\* C9: a batch longer than the limit (100 credit, 50 revenue) is rejected as
\* a whole, with no per-item results and no summary; a batch of at most the
\* limit, the limit itself included, is processed into one entry per request.
C9_OversizeBatchRejected ==
    BatchHandled =>
        IF Len(request) > LimitOf(endpoint)
        THEN /\ response.status # 200
             /\ response.body = [kind |-> "none"]
        ELSE /\ response.status = 200
             /\ response.body.kind = "batch"
             /\ Len(response.body.results) = Len(request)
             /\ response.body.summary.total_requests = Len(request)

\* C9 witness: a credit batch of 101 requests was rejected.
C9_Witness ==
    /\ endpoint = "credit_batch"
    /\ Len(request) = 101
    /\ response.status # 200

\* C10 (as claimed): the rejection of an oversize batch reaches the caller
\* with status 400, in both batch routes.
C10_OversizeIsStatus400 ==
    (BatchHandled /\ Len(request) > LimitOf(endpoint)) => response.status = 400

\* A batch that passed the size test of its route.
BatchWithinLimit == BatchHandled /\ Len(request) <= LimitOf(endpoint)

\* What scoring one item of the batch yields by itself.
ItemOutcome(route, req) ==
    IF route = "credit_batch" THEN calculate_credit_score(req)
    ELSE predict_revenue(req)

\* The payload of a successful entry.
EntryPayload(route, entry) ==
    IF route = "credit_batch" THEN entry.result ELSE entry.prediction

\* The entry of position i (counted from 0) is the entry its own item
\* determines: the failure entry with the error message when scoring the
\* item raises, the success entry with the item's result otherwise.
EntryIsOwn(route, entry, i, req) ==
    LET outcome == ItemOutcome(route, req)
    IN  IF outcome.raised
        THEN entry = [index |-> i, success |-> FALSE,
                      error |-> StrOfHTTPException(outcome.exc)]
        ELSE /\ entry.index = i
             /\ entry.success
             /\ EntryPayload(route, entry) = outcome.value

\* C11: in a batch within the size limit the batch call returns normally
\* whatever items fail, the entry of a failing item i is
\* {index: i, success: false, error: message}, and every other item gets the
\* entry it gets when no item of the batch fails: the entry of a position
\* depends on that position's item alone.
C11_ItemFailureIsolated ==
    BatchWithinLimit =>
        /\ response.status = 200
        /\ Len(response.body.results) = Len(request)
        /\ \A k \in 1..Len(request) :
             EntryIsOwn(endpoint, response.body.results[k], k - 1, request[k])

\* C11 witness: a credit batch in which a failing item is followed by an
\* item that was scored.
C11_Witness ==
    /\ endpoint = "credit_batch"
    /\ Len(request) <= CreditBatchLimit
    /\ response.status = 200
    /\ \E i, j \in 1..Len(request) :
         /\ i < j
         /\ calculate_credit_score(request[i]).raised
         /\ ~response.body.results[i].success
         /\ response.body.results[j].success
         /\ response.body.results[j].result.credit_score \in 300..850


\* C12: for every batch within the size limit the results list has one entry
\* per request, in request order: len(results) = len(requests) and the entry
\* at position i carries index i, whatever mix of items succeed or fail.
C12_ResultsAlignedWithRequests ==
    (BatchWithinLimit /\ response.status = 200) =>
        /\ Len(response.body.results) = Len(request)
        /\ \A k \in 1..Len(request) : response.body.results[k].index = k - 1

\* C12 witness: a revenue batch of three items of which the middle one
\* failed and the others were predicted.
C12_Witness ==
    /\ endpoint = "revenue_batch"
    /\ response.status = 200
    /\ Len(request) = 3
    /\ response.body.results[1].success
    /\ ~response.body.results[2].success
    /\ response.body.results[3].success
    /\ response.body.results[3].index = 2

\* The positions of a results list whose entry succeeded / failed.
SucceededAt(results) == {k \in 1..Len(results) : results[k].success}
FailedAt(results) == {k \in 1..Len(results) : ~results[k].success}

\* Sum of the credit scores of the successful entries, taken score by score:
\* each distinct score times the number of entries that carry it.
RECURSIVE TallyScores(_, _)
TallyScores(results, scores) ==
    IF scores = {} THEN 0
    ELSE LET v == CHOOSE v \in scores : TRUE
         IN  v * Cardinality({k \in SucceededAt(results) :
                                results[k].result.credit_score = v})
               + TallyScores(results, scores \ {v})

SuccessfulScoreSum(results) ==
    TallyScores(results,
                {results[k].result.credit_score : k \in SucceededAt(results)})

\* C13: every processed batch has success = true in its envelope, even when
\* every item failed, and a summary with total_requests = len(requests),
\* successful = number of successful entries, failed = number of failed
\* entries, successful + failed = total_requests; in the credit batch
\* average_score is the mean credit_score over the successful entries, and 0
\* when there are none.
C13_BatchSummary ==
    (BatchWithinLimit /\ response.status = 200) =>
        LET body == response.body
            summary == body.summary
        IN  /\ body.success
            /\ summary.total_requests = Len(request)
            /\ summary.successful = Cardinality(SucceededAt(body.results))
            /\ summary.failed = Cardinality(FailedAt(body.results))
            /\ summary.successful + summary.failed = summary.total_requests
            /\ endpoint = "credit_batch" =>
                 IF SucceededAt(body.results) = {}
                 THEN summary.average_score = R(0)
                 ELSE summary.average_score =
                        Frac(SuccessfulScoreSum(body.results),
                             Cardinality(SucceededAt(body.results)))

\* C13 witness: a credit batch of several items, every one of which failed,
\* was answered with a success envelope.
C13_Witness ==
    /\ endpoint = "credit_batch"
    /\ response.status = 200
    /\ Len(request) >= 2
    /\ SucceededAt(response.body.results) = {}
    /\ response.body.success
    /\ response.body.summary.failed = Len(request)
    /\ response.body.summary.average_score = R(0)

\* A credit batch in which some items failed and the others have different
\* scores was answered with the mean of the scores.
MixedBatchSeen ==
    /\ endpoint = "credit_batch"
    /\ response.status = 200
    /\ FailedAt(response.body.results) # {}
    /\ Cardinality({response.body.results[k].result.credit_score :
                      k \in SucceededAt(response.body.results)}) >= 2

\* The asset-scenario results of a stress-test response, as pairs of keys.
IndividualResults(data) ==
    UNION { { <<aid, scenario>> : scenario \in DOMAIN data.individual_assets[aid] } :
            aid \in DOMAIN data.individual_assets }

\* C14: for every list of N asset identifiers and M scenario names passed to
\* the stress test (N >= 0, M >= 0, repetitions allowed) the response
\* contains exactly N*M asset-scenario results and exactly M portfolio_impact
\* entries.
C14_StressTestCounts ==
    endpoint = "stress_test" =>
        /\ response.status = 200
        /\ Cardinality(IndividualResults(response.body.data))
             = Len(request.asset_ids) * Len(request.stress_scenarios)
        /\ Cardinality(DOMAIN response.body.data.portfolio_impact)
             = Len(request.stress_scenarios)

\* C15: in every assessment result the expiry timestamp equals the creation
\* timestamp plus the fixed horizon exactly, whatever the clock does between
\* the reads: next_review_date = created_at + 90 days in a credit result,
\* valid_until = created_at + 24 hours in a risk result (timestamps in
\* seconds).
C15_ExpiryIsCreationPlusHorizon ==
    /\ CreditScored =>
         response.body.next_review_date
           = response.body.created_at + 90 * 24 * 3600
    /\ RiskAssessed =>
         response.body.valid_until = response.body.created_at + 24 * 3600

\* The fields of a CreditScoreResult other than its timestamps.
CreditResultFields ==
    {"credit_score", "credit_grade", "risk_level", "confidence",
     "score_breakdown", "risk_factors", "positive_factors", "recommendations"}

\* C16: two invocations of calculate_credit_score on identical requests
\* return results that agree on every field other than the timestamps.
C16_CreditScoringDeterministic ==
    endpoint = "credit_score_again" =>
        /\ response.status = response.previous.status
        /\ response.status = 200 =>
             \A f \in CreditResultFields :
               response.body[f] = response.previous.body[f]

\* C16 witness: a request was scored twice, the clock read differently the
\* second time, and the two results carry the same score.
C16_Witness ==
    /\ endpoint = "credit_score_again"
    /\ response.status = 200
    /\ response.previous.status = 200
    /\ response.body.created_at # response.previous.body.created_at
    /\ response.body.credit_score = response.previous.body.credit_score

\* C17: two invocations of assess_risk on identical requests return identical
\* sub-scores for every requested risk type, and therefore identical
\* overall_risk_score and overall_risk_level.
C17_RiskAssessmentDeterministic ==
    endpoint = "risk_assess_again" =>
        /\ response.status = response.previous.status
        /\ response.status = 200 =>
             /\ response.body.risk_breakdown = response.previous.body.risk_breakdown
             /\ response.body.overall_risk_score
                  = response.previous.body.overall_risk_score
             /\ response.body.overall_risk_level
                  = response.previous.body.overall_risk_level

\* The sub-scorers that draw no random number do return identical sub-scores:
\* two assessments of one request agree on market and credit risk.
MarketAndCreditRepeatable ==
    (endpoint = "risk_assess_again" /\ response.status = 200) =>
        \A t \in {"market", "credit"} \cap DOMAIN response.body.risk_breakdown :
          response.body.risk_breakdown[t] = response.previous.body.risk_breakdown[t]

\* The messages of the rules of a table that hold, in table order.  A rule
\* is a pair <<holds, message>>.
RECURSIVE FiredMessages(_)
FiredMessages(rules) ==
    IF rules = <<>> THEN <<>>
    ELSE IF Head(rules)[1] THEN <<Head(rules)[2]>> \o FiredMessages(Tail(rules))
    ELSE FiredMessages(Tail(rules))

NoRepeats(list) ==
    \A i, j \in 1..Len(list) : list[i] = list[j] => i = j

\* The risk-factor rules, in declaration order.
RiskFactorRules(req, score) ==
    << <<req.financial_history.defaults > 0, "History of payment defaults">>,
       <<req.financial_history.late_payments > 5, "Frequent late payments">>,
       <<req.financial_history.total_revenue < 1000, "Low revenue history">>,
       <<req.blockchain_metrics.wallet_age < 30, "New wallet address">>,
       <<req.blockchain_metrics.transaction_count < 10, "Limited blockchain activity">>,
       <<RLt(Frac(3, 10), req.social_metrics.negative_sentiment_ratio),
         "High negative sentiment">>,
       <<score < 500, "Below average credit score">> >>

\* The positive-factor rules that do not look at the score, in declaration
\* order.
PositiveFactorRules(req) ==
    << <<req.financial_history.defaults = 0, "No payment defaults">>,
       <<req.financial_history.total_revenue > 10000, "Strong revenue history">>,
       <<req.blockchain_metrics.defi_participation, "Active DeFi participant">>,
       <<req.blockchain_metrics.governance_participation > 5, "Active in governance">>,
       <<req.social_metrics.verified_accounts > 0, "Verified social media accounts">>,
       <<RLt(Frac(8, 10), req.social_metrics.community_reputation),
         "Strong community reputation">> >>

\* C18 as stated: risk_factors and positive_factors each contain exactly the
\* messages of all rules whose predicate holds, in rule-declaration order with
\* no message repeated; no rule is skipped because an earlier rule matched,
\* the score rules 'score > 700' and 'score > 600' included.
C18_AllMatchingRulesFire ==
    CreditScored =>
        LET score == response.body.credit_score
        IN  /\ response.body.risk_factors = FiredMessages(RiskFactorRules(request, score))
            /\ response.body.positive_factors =
                 FiredMessages(PositiveFactorRules(request) \o
                               << <<score > 700, "Excellent credit score">>,
                                  <<score > 600, "Good credit score">> >>)
            /\ NoRepeats(response.body.risk_factors)
            /\ NoRepeats(response.body.positive_factors)

\* C18 amended: every rule whose predicate holds fires, in declaration order
\* and without repetition, except that the two score rules of
\* positive_factors are one tier: 'Excellent credit score' when score > 700,
\* otherwise 'Good credit score' when score > 600, never both.
C18_RulesFireWithScoreTier ==
    CreditScored =>
        LET score == response.body.credit_score
        IN  /\ response.body.risk_factors = FiredMessages(RiskFactorRules(request, score))
            /\ response.body.positive_factors =
                 FiredMessages(PositiveFactorRules(request) \o
                               << <<score > 700, "Excellent credit score">>,
                                  <<score > 600 /\ ~(score > 700), "Good credit score">> >>)
            /\ NoRepeats(response.body.risk_factors)
            /\ NoRepeats(response.body.positive_factors)

\* C18 witness: a result with a score above 700 whose positive factors hold
\* several messages, 'Excellent credit score' last, and not 'Good credit
\* score'.
C18_Witness ==
    /\ CreditScored
    /\ response.body.credit_score > 700
    /\ Len(response.body.positive_factors) >= 3
    /\ LastOf(response.body.positive_factors) = "Excellent credit score"
    /\ \A k \in 1..Len(response.body.positive_factors) :
         response.body.positive_factors[k] # "Good credit score"

FinancialScored ==
    endpoint = "financial_score" /\ response.status = 200

\* The history of the claim: no revenue, no transactions, no defaults.
ZeroHistory(financial) ==
    /\ financial.total_revenue = 0
    /\ financial.total_transactions = 0
    /\ financial.defaults = 0

\* C19 as stated: whenever a FinancialHistory has total_revenue = 0,
\* total_transactions = 0 and defaults = 0, _calculate_financial_score
\* returns exactly 500, the base score.
C19_ZeroHistoryScoresBase ==
    (FinancialScored /\ ZeroHistory(request.financial_history)) =>
        response.body.financial_score = R(500)

\* C19 amended: a FinancialHistory with total_revenue = 0,
\* total_transactions = 0, defaults = 0 and an average_transaction_size that
\* is not positive scores exactly 500; with a positive
\* average_transaction_size it scores 500 + min(50, size / 100).
C19_ZeroHistoryWithoutSizeScoresBase ==
    (FinancialScored /\ ZeroHistory(request.financial_history)) =>
        LET size == request.financial_history.average_transaction_size
        IN  response.body.financial_score =
              IF size > 0 THEN RAdd(R(500), PyMin(R(50), Frac(size, 100)))
              ELSE R(500)

\* C19 witness: a zero history with late payments recorded and no average
\* transaction size was scored 500.
C19_Witness ==
    /\ FinancialScored
    /\ ZeroHistory(request.financial_history)
    /\ request.financial_history.late_payments > 0
    /\ request.financial_history.average_transaction_size = 0
    /\ response.body.financial_score = R(500)

\* C20: the confidence of every credit result and every risk result lies in
\* [0.5, 1.0]: never below the base 0.5 and never above 1.0, for every
\* combination of data-sufficiency signals present.
C20_ConfidenceInRange ==
    (CreditScored \/ RiskAssessed) =>
        /\ RLe(Frac(1, 2), response.body.confidence)
        /\ RLe(response.body.confidence, R(1))

\* C20 witness: a credit result for a request that shows every
\* data-sufficiency signal, whose confidence is 1.0.
C20_Witness ==
    /\ CreditScored
    /\ request.financial_history.total_transactions > 10
    /\ request.blockchain_metrics.transaction_count > 50
    /\ DOMAIN request.social_metrics.social_media_followers # {}
    /\ request.user_type = "artist"
    /\ request.artist_metrics # None
    /\ request.artist_metrics[1].total_streams > 1000
    /\ response.body.confidence = R(1)

\* A risk result for a request that shows all four signals has confidence
\* 1.0.
RiskConfidenceTopSeen ==
    /\ RiskAssessed
    /\ Len(request.assessment_types) >= 4
    /\ response.body.confidence = R(1)

\* The sufficiency signals a request shows, by domain.
CreditSignals(req) ==
    {s \in {"financial", "blockchain", "followers", "streams"} :
       \/ s = "financial" /\ req.financial_history.total_transactions > 10
       \/ s = "blockchain" /\ req.blockchain_metrics.transaction_count > 50
       \/ s = "followers" /\ DOMAIN req.social_metrics.social_media_followers # {}
       \/ /\ s = "streams"
          /\ req.user_type = "artist"
          /\ req.artist_metrics # None
          /\ req.artist_metrics[1].total_streams > 1000}

RiskSignals(req) ==
    {s \in {"prices", "volatility", "market_cap", "types"} :
       \/ s = "prices" /\ Len(req.market_data.price_history) > 30
       \/ s = "volatility" /\ RLt(R(0), req.market_data.volatility)
       \/ s = "market_cap" /\ req.asset_info # None /\ req.asset_info[1].market_cap > 0
       \/ s = "types" /\ Len(req.assessment_types) >= 4}

SignalsOf(domain, req) ==
    IF domain = "credit" THEN CreditSignals(req) ELSE RiskSignals(req)

ConfidencePairScored ==
    endpoint = "confidence" /\ response.status = 200

\* C21: confidence is monotone in the set of sufficiency signals: for two
\* requests of one domain where every signal present in the first is present
\* in the second, confidence of the first <= confidence of the second.
C21_ConfidenceMonotone ==
    (/\ ConfidencePairScored
     /\ SignalsOf(request.domain, request.first)
          \subseteq SignalsOf(request.domain, request.second)) =>
        RLe(response.body.first, response.body.second)

\* C21 witness: two credit requests, the second showing the signals of the
\* first and the streams signal besides, got confidences 0.6 and 0.65.
C21_Witness ==
    /\ ConfidencePairScored
    /\ request.domain = "credit"
    /\ CreditSignals(request.first) = {"followers"}
    /\ CreditSignals(request.second) = {"followers", "streams"}
    /\ response.body.first = Frac(60, 100)
    /\ response.body.second = Frac(65, 100)

CreditBreakdownKeys ==
    {"financial_history", "specific_metrics", "blockchain_metrics", "social_metrics"}

\* C22: every sub-score of a breakdown is in the range of its domain: the
\* financial, type-specific, blockchain and social credit sub-scores are in
\* [300, 850] and every risk sub-score is in [0, 100], whatever the inputs.
C22_SubScoresInRange ==
    /\ CreditScored =>
         \A k \in CreditBreakdownKeys :
           /\ RLe(R(300), response.body.score_breakdown[k])
           /\ RLe(response.body.score_breakdown[k], R(850))
    /\ RiskAssessed =>
         \A t \in DOMAIN response.body.risk_breakdown :
           /\ RLe(R(0), response.body.risk_breakdown[t])
           /\ RLe(response.body.risk_breakdown[t], R(100))

\* C22 witness: a credit result whose social sub-score is held at 850 (30
\* verified accounts add 600 to the base 500) and whose blockchain sub-score
\* is held at 300 (a wallet age of -3000 takes 300 off the base).
C22_Witness ==
    /\ CreditScored
    /\ request.social_metrics.verified_accounts = 30
    /\ request.blockchain_metrics.wallet_age = -3000
    /\ response.body.score_breakdown.social_metrics = R(850)
    /\ response.body.score_breakdown.blockchain_metrics = R(300)

SubScored == endpoint = "sub_score" /\ response.status = 200

\* The cap the source gives each term: the first argument of its min(), or
\* the maximum its comment states for a term written without min().  The
\* verified_accounts term has neither.
TermCaps ==
    [artist |->
       [total_streams |-> 100, follower_count |-> 80, engagement_rate |-> 50,
        release_frequency |-> 30, collaboration_count |-> 40,
        awards_count |-> 50],
     investor |->
       [total_invested |-> 100, portfolio_size |-> 50, success_rate |-> 100,
        average_roi |-> 80, diversification_score |-> 70],
     social |->
       [total_followers |-> 80, social_engagement_rate |-> 60,
        community_reputation |-> 50]]

\* C23: in the artist, investor and social sub-scorers, what one signal adds
\* to the score before the clamp never exceeds the cap of its term, however
\* large the signal.
C23_TermsWithinCaps ==
    SubScored =>
        \A k \in DOMAIN TermCaps[request.scorer] :
          RLe(response.body.terms[k], R(TermCaps[request.scorer][k]))

\* The terms written with min() stay within their caps.
MinTermsWithinCaps ==
    SubScored =>
        \A k \in DOMAIN TermCaps[request.scorer] \
                 {"engagement_rate", "diversification_score",
                  "social_engagement_rate", "community_reputation"} :
          RLe(response.body.terms[k], R(TermCaps[request.scorer][k]))

ScenariosGenerated == endpoint = "risk_scenarios" /\ response.status = 200

ScenarioCatalogue ==
    << <<"Market Crash", Frac(5, 100), Frac(8, 10)>>,
       <<"Regulatory Changes", Frac(15, 100), Frac(6, 10)>>,
       <<"Technical Failure", Frac(10, 100), Frac(4, 10)>>,
       <<"Liquidity Crisis", Frac(20, 100), Frac(5, 10)>> >>

\* C24: the scenarios of a risk assessment are exactly four, in the order
\* Market Crash, Regulatory Changes, Technical Failure, Liquidity Crisis,
\* with the (probability, impact) pairs (0.05, 0.8), (0.15, 0.6), (0.10, 0.4),
\* (0.20, 0.5) and a non-empty mitigation list each, whatever the request
\* and the overall risk score.
C24_FixedScenarioCatalogue ==
    ScenariosGenerated =>
        LET scenarios == response.body.risk_scenarios
        IN  /\ Len(scenarios) = 4
            /\ \A i \in 1..4 :
                 /\ scenarios[i].scenario_name = ScenarioCatalogue[i][1]
                 /\ scenarios[i].probability = ScenarioCatalogue[i][2]
                 /\ scenarios[i].impact = ScenarioCatalogue[i][3]
                 /\ scenarios[i].mitigation_strategies # <<>>

\* C24 witness: the catalogue was generated for a long-term request with an
\* asset and an overall score of 100, with the largest loss drawn for the
\* market crash.
C24_Witness ==
    /\ ScenariosGenerated
    /\ request.overall_score = R(100)
    /\ request.request.time_horizon = "long_term"
    /\ request.request.asset_info # None
    /\ Len(response.body.risk_scenarios) = 4
    /\ response.body.risk_scenarios[1].scenario_name = "Market Crash"
    /\ response.body.risk_scenarios[1].potential_loss = Frac(7, 10)

\* The requests on which a scoring stage raises: the credit-risk sub-scorer
\* divides volume_24h by a market_cap of 0; np.log10 is handed an integer
\* too wide for it.
RiskStageFails(req) ==
    /\ \E i \in 1..Len(req.assessment_types) : req.assessment_types[i] = "credit"
    /\ req.asset_info # None
    /\ req.asset_info[1].volume_24h > 0
    /\ req.asset_info[1].market_cap = 0

CreditStageFails(req) ==
    /\ req.user_type = "artist"
    /\ req.artist_metrics # None
    /\ req.artist_metrics[1].total_streams >= WideInt

Mentions(detail, word) == \E i \in 1..Len(detail) : detail[i] = word

\* A terminal error response: an error status, a message that names the
\* operation and the exception, and no result.
TerminalError(operation, exception) ==
    /\ response.status = 500
    /\ response.body = [kind |-> "none"]
    /\ Mentions(response.detail, operation)
    /\ LastOf(response.detail) = exception

\* C25: in a single-item call, an exception raised inside a scoring stage is
\* answered with one terminal error response that carries a descriptive
\* message and no partial result; every response of the two routes is either
\* a result or such an error.
C25_StageFailureSurfaced ==
    /\ (endpoint = "risk_assess" /\ RiskStageFails(request)) =>
         TerminalError("Risk assessment failed", "ZeroDivisionError")
    /\ (endpoint = "credit_score" /\ CreditStageFails(request)) =>
         TerminalError("Credit scoring failed", "TypeError")
    /\ endpoint \in {"risk_assess", "credit_score"} =>
         \/ response.status = 200 /\ response.body.kind # "none"
         \/ /\ response.status = 500
            /\ response.body = [kind |-> "none"]
            /\ response.detail # <<>>

\* C25 witness: a risk assessment that asked for the credit type on an asset
\* with volume 50000 and market cap 0 was answered with the error.
C25_Witness ==
    /\ endpoint = "risk_assess"
    /\ RiskStageFails(request)
    /\ request.asset_info[1].volume_24h = 50000
    /\ response.status = 500
    /\ LastOf(response.detail) = "ZeroDivisionError"

CreditStageFailureSeen ==
    /\ endpoint = "credit_score"
    /\ CreditStageFails(request)
    /\ response.status = 500

GradesOfLevel ==
    [low |-> {"AAA", "AA", "A"}, medium |-> {"BBB", "BB"},
     high |-> {"B", "CCC"}, very_high |-> {"CC", "C", "D"}]

\* The scores that go with each credit risk level.
ScoresOfLevel ==
    [low |-> 700..850, medium |-> 600..699, high |-> 500..599,
     very_high |-> 300..499]

\* C27: in every credit result the risk level and the grade agree: low with
\* AAA/AA/A (score >= 700), medium with BBB/BB (600..699), high with B/CCC
\* (500..599), very_high with CC/C/D (below 500); and the risk factor
\* "Below average credit score" is listed exactly when the level is very_high.
C27_LevelMatchesGrade ==
    CreditScored =>
        /\ \A level \in DOMAIN GradesOfLevel :
             /\ response.body.risk_level = level
                  <=> response.body.credit_grade \in GradesOfLevel[level]
             /\ response.body.risk_level = level
                  <=> response.body.credit_score \in ScoresOfLevel[level]
        /\ Mentions(response.body.risk_factors, "Below average credit score")
             <=> response.body.risk_level = "very_high"

\* C27 witness: a result of grade CC, level very_high, listing the factor.
C27_Witness ==
    /\ CreditScored
    /\ response.body.credit_grade = "CC"
    /\ response.body.risk_level = "very_high"
    /\ Mentions(response.body.risk_factors, "Below average credit score")

CreditLevelsSeen(level, grade) ==
    /\ CreditScored
    /\ response.body.risk_level = level
    /\ response.body.credit_grade = grade

LowLevelSeen == CreditLevelsSeen("low", "A")
MediumLevelSeen == CreditLevelsSeen("medium", "BB")
HighLevelSeen == CreditLevelsSeen("high", "CCC")

\* The level and grade bands agree on every integer score of 300..850.
LevelAndGradeBandsAgree ==
    (endpoint = "classify" /\ request.domain = "credit" /\ response.status = 200) =>
        \A level \in DOMAIN GradesOfLevel :
          /\ response.body.risk_level = level
               <=> response.body.credit_grade \in GradesOfLevel[level]
          /\ response.body.risk_level = level
               <=> request.score[1] \in ScoresOfLevel[level]

\* An artist request whose financial history has no negative counts.
ArtistWithSaneHistory(req) ==
    /\ req.user_type = "artist"
    /\ req.financial_history.defaults >= 0
    /\ req.financial_history.late_payments >= 0

\* 0.35 financial + 0.25 specific + 0.20 blockchain + 0.15 social
ArtistWeightedSum(breakdown) ==
    RSum(<< RMul(breakdown.financial_history, Frac(35, 100)),
            RMul(breakdown.specific_metrics, Frac(25, 100)),
            RMul(breakdown.blockchain_metrics, Frac(20, 100)),
            RMul(breakdown.social_metrics, Frac(15, 100)) >>)

\* C28: for an artist whose defaults and late payments are not negative, the
\* financial and blockchain sub-scores are at most 800, the score is the
\* integer part of the sum weighted 0.35/0.25/0.20/0.15 (raised to 300 when
\* below), which is at most 780: the upper clamp at 850 never binds and the
\* grade is never AAA.
C28_ArtistScoreAtMost780 ==
    (CreditScored /\ ArtistWithSaneHistory(request)) =>
        LET breakdown == response.body.score_breakdown
            weighted == ArtistWeightedSum(breakdown)
        IN  /\ RLe(breakdown.financial_history, R(800))
            /\ RLe(breakdown.blockchain_metrics, R(800))
            /\ RLe(weighted, R(780))
            /\ response.body.credit_score
                 = (IF PyInt(weighted) < 300 THEN 300 ELSE PyInt(weighted))
            /\ response.body.credit_score <= 780
            /\ response.body.credit_grade # "AAA"

\* C28 witness: an artist with every sub-score at its maximum (800, 850, 800,
\* 850) was given the score 780 and the grade AA.
C28_Witness ==
    /\ CreditScored
    /\ ArtistWithSaneHistory(request)
    /\ response.body.score_breakdown.financial_history = R(800)
    /\ response.body.score_breakdown.specific_metrics = R(850)
    /\ response.body.score_breakdown.blockchain_metrics = R(800)
    /\ response.body.score_breakdown.social_metrics = R(850)
    /\ response.body.credit_score = 780
    /\ response.body.credit_grade = "AA"

\* ---- C29 ----------------------------------------------------------------

OverallScored == response.body.kind = "overall_risk"

\* C29: a LONG_TERM assessment always has overall_risk_score <= 60 and a
\* level among very_low, low, medium; a MEDIUM_TERM assessment always has
\* overall_risk_score <= 80 and a level that is neither very_high nor
\* extreme; very_high and extreme are reached only with SHORT_TERM.
C29_HorizonCapsLevel ==
    OverallScored =>
      LET horizon == request.request.time_horizon
          score   == response.body.overall_risk_score
          level   == response.body.risk_level
      IN  /\ horizon = "long_term" =>
                /\ PyFloatCmp(score, FloatOfInt(60)) <= 0
                /\ level \in {"very_low", "low", "medium"}
          /\ horizon = "medium_term" =>
                /\ PyFloatCmp(score, FloatOfInt(80)) <= 0
                /\ level \notin {"very_high", "extreme"}
          /\ level \in {"very_high", "extreme"} => horizon = "short_term"

\* What remains true: the long-term score stays below 60 + 2^-46 and the
\* medium-term score below 80 + 2^-46, so the level is at most one above
\* the level of the cap.
HorizonCapsLevelUpToRounding ==
    OverallScored =>
      LET horizon == request.request.time_horizon
          score   == response.body.overall_risk_score
          level   == response.body.risk_level
          ulp     == << <<1>>, -46 >>
      IN  /\ horizon = "long_term" =>
                /\ PyFloatCmp(score, PyFloatAdd(FloatOfInt(60), ulp)) <= 0
                /\ level \in {"very_low", "low", "medium", "high"}
          /\ horizon = "medium_term" =>
                /\ PyFloatCmp(score, PyFloatAdd(FloatOfInt(80), ulp)) <= 0
                /\ level \in {"very_low", "low", "medium", "high", "very_high"}

\* ---- C30 ----------------------------------------------------------------

\* The type-specific sub-score the specification gives a request.
TypeSpecificScore(req) ==
    IF req.user_type = "artist" /\ req.artist_metrics # None
    THEN calculate_artist_score(req.artist_metrics[1])
    ELSE IF req.user_type = "investor" /\ req.investor_metrics # None
    THEN calculate_investor_score(req.investor_metrics[1])
    ELSE R(500)

\* The credit score the weights w (in hundredths: financial, type-specific,
\* blockchain, social) give the sub-scores of a breakdown.
ScoreUnderWeights(breakdown, w) ==
    CreditClampOf(RDiv(RSum(<< RMul(breakdown.financial_history, R(w[1])),
                               RMul(breakdown.specific_metrics, R(w[2])),
                               RMul(breakdown.blockchain_metrics, R(w[3])),
                               RMul(breakdown.social_metrics, R(w[4])) >>),
                       R(100)))

\* C30: only an artist is scored with the artist weights; investor, label
\* and producer are scored with the investor weights 0.40/0.30/0.20/0.10.
\* The type-specific sub-score comes from artist_metrics only for an artist
\* that supplies them and from investor_metrics only for an investor that
\* supplies them; in every other case it is the constant 500, and it enters
\* the total with the full type-specific weight.
C30_WeightsAndSpecificScoreByType ==
    CreditScored =>
        LET breakdown == response.body.score_breakdown
            w == IF request.user_type = "artist" THEN <<35, 25, 20, 15>>
                 ELSE <<40, 30, 20, 10>>
        IN  /\ breakdown.specific_metrics = TypeSpecificScore(request)
            /\ response.body.credit_score = ScoreUnderWeights(breakdown, w)

\* C30 witness: a label that supplies both bundles was scored with a
\* type-specific sub-score of 500, and its score is not the one the artist
\* weights would give.
C30_Witness ==
    /\ CreditScored
    /\ request.user_type = "label"
    /\ request.artist_metrics # None /\ request.investor_metrics # None
    /\ response.body.score_breakdown.specific_metrics = R(500)
    /\ response.body.credit_score
         # ScoreUnderWeights(response.body.score_breakdown, <<35, 25, 20, 15>>)

=============================================================================
